---- MODULE Spec2Model ----
(***************************************************************************)
(* lightsailctl: the push orchestration (internal/cs/pushimage.go) and the *)
(* Docker Engine adapter with its status stream filter                     *)
(* (internal/cs/dockerengine.go).                                          *)
(*                                                                         *)
(* Go strings are TLA+ strings; an error value is a record with a kind.    *)
(* One run of cs.PushImage is modelled step by step: every capability call *)
(* has a call step and a return step, the outcome of a call is chosen when *)
(* it returns.                                                             *)
(***************************************************************************)
EXTENDS Integers, Sequences, FiniteSets, TLC

\* ------------------------------------------------------------------------
\* Bounds of the model
\* ------------------------------------------------------------------------

\* Largest number of records the upstream push response yields in one run.
MaxRecords == 2

\* ------------------------------------------------------------------------
\* Strings
\* ------------------------------------------------------------------------

\* strings.Contains(s, sub)
Contains(s, sub) ==
    \E i \in 1..(Len(s) - Len(sub) + 1) : SubSeq(s, i, i + Len(sub) - 1) = sub

\* s[i] as a one-character string, i from 1
CharAt(s, i) == SubSeq(s, i, i)

HexChars == {"0", "1", "2", "3", "4", "5", "6", "7", "8", "9",
             "a", "b", "c", "d", "e", "f"}

DecimalDigits == "0123456789"

\* strconv-style decimal text of a non-negative integer
RECURSIVE Itoa(_)
Itoa(n) ==
    IF n < 10 THEN CharAt(DecimalDigits, n + 1)
    ELSE Itoa(n \div 10) \o CharAt(DecimalDigits, (n % 10) + 1)

\* n as decimal text, left-padded with zeros to width w
RECURSIVE ZeroPad(_, _)
ZeroPad(s, w) == IF Len(s) >= w THEN s ELSE ZeroPad("0" \o s, w)

\* ------------------------------------------------------------------------
\* Errors
\* ------------------------------------------------------------------------

nil == [kind |-> "nil"]

\* errors.New / fmt.Errorf: a plain error with a text
errorsNew(text) == [kind |-> "error", text |-> text]

\* *jsonmessage.JSONError, the errorDetail member of a status record
JSONError(msg) == [kind |-> "JSONError", Message |-> msg]

\* &platformError{wantPlatform: p, cause: err}
platformError(p, err) ==
    [kind |-> "platformError", wantPlatform |-> p, cause |-> err]

\* (pe *platformError).Error(), (je *JSONError).Error(), plain Error()
ErrorText(e) ==
    CASE e.kind = "error" -> e.text
      [] e.kind = "JSONError" -> e.Message
      [] e.kind = "platformError" ->
            "image does not provide " \o e.wantPlatform.OS \o "/"
                \o e.wantPlatform.Architecture \o " platform"
      [] OTHER -> ""

\* ------------------------------------------------------------------------
\* generateUniqueTag: "<UnixNano>-<base32 of 8 random bytes>"
\* ------------------------------------------------------------------------

\* b32Alphabet of base32.StdEncoding
b32Alphabet_std == "ABCDEFGHIJKLMNOPQRSTUVWXYZ234567"

\* The alphabet of b32
b32Alphabet == "0123456789abcdefghijklmnopqrstuv"

RECURSIVE Pow2(_)
Pow2(n) == IF n = 0 THEN 1 ELSE 2 * Pow2(n - 1)

\* Bit k (from 0, most significant bit of the first byte first) of the byte
\* sequence b; bits past the end read as 0, which is base32's zero fill of
\* the last quantum.
BitAt(b, k) ==
    IF k < 8 * Len(b) THEN (b[(k \div 8) + 1] \div Pow2(7 - (k % 8))) % 2 ELSE 0

\* The 5-bit group j (from 0) of b
Quantum(b, j) ==
    16 * BitAt(b, 5 * j) + 8 * BitAt(b, 5 * j + 1) + 4 * BitAt(b, 5 * j + 2)
        + 2 * BitAt(b, 5 * j + 3) + BitAt(b, 5 * j + 4)

RECURSIVE EncodeFrom(_, _, _)
EncodeFrom(b, j, n) ==
    IF j >= n THEN ""
    ELSE CharAt(b32Alphabet, Quantum(b, j) + 1) \o EncodeFrom(b, j + 1, n)

\* b32.EncodeToString(b), without padding: ceil(8*len(b)/5) characters
b32EncodeToString(b) == EncodeFrom(b, 0, (8 * Len(b) + 4) \div 5)

\* Number of bytes randomName13 reads from the random source
RandomLen == 8

\* randomName13(): the first 8 bytes of the random source r, base32 encoded
randomName13(r) == b32EncodeToString(SubSeq(r, 1, RandomLen))

\* now.Unix() in place of now.UnixNano(): the nanoseconds are left out
UnixNanoText_seconds(now) == Itoa(now.sec)

\* now.UnixNano() in decimal; a time is [sec, nsec] as time.Unix(sec, nsec)
\* keeps it, with 0 <= nsec < 10^9 and sec >= 0.
UnixNanoText(now) ==
    IF now.sec = 0 THEN Itoa(now.nsec)
    ELSE Itoa(now.sec) \o ZeroPad(Itoa(now.nsec), 9)

\* What is left of the random source r after io.ReadFull(r, b) filled the 8
\* bytes of b
ReadFull(r) == SubSeq(r, RandomLen + 1, Len(r))

\* What a call of generateUniqueTag reads: the clock value and 8 bytes
Observation(now, r) == [now |-> now, bytes |-> SubSeq(r, 1, RandomLen)]

\* generateUniqueTag() reading the clock value now and the random source r
generateUniqueTag(now, r) == UnixNanoText(now) \o "-" \o randomName13(r)

\* ------------------------------------------------------------------------
\* RemoteImage, the platform error pattern and the digest pattern
\* ------------------------------------------------------------------------

\* Ref that names the tag latest
Ref_latest(r) == r.AuthConfig.ServerAddress \o ":latest"

\* (r *RemoteImage).Ref()
Ref(r) == r.AuthConfig.ServerAddress \o ":" \o r.Tag

\* The platform DockerEngine.PushImage asks for
platform == [OS |-> "linux", Architecture |-> "amd64"]

\* platformErrorRE with the platform left out of the pattern
platformErrorRE_anyPlatform(p, s) ==
    \/ Contains(s, "does not provide the specified platform")
    \/ Contains(s, "does not match the specified platform")

\* platformErrorRE(p).MatchString(s)
platformErrorRE(p, s) ==
    LET tail == " the specified platform (" \o p.OS \o "/" \o p.Architecture \o ")"
    IN  \/ Contains(s, "does not provide" \o tail)
        \/ Contains(s, "does not match" \o tail)

\* Number of hex characters digestStatusRE wants after "sha256:"
DigestHexLen == 64

\* Positions where digestStatusRE matches in s
DigestMatchAt(s) ==
    { i \in 1..Len(s) :
        /\ i + 14 + DigestHexLen <= Len(s)
        /\ SubSeq(s, i, i + 14) = "digest: sha256:"
        /\ \A k \in 1..DigestHexLen : CharAt(s, i + 14 + k) \in HexChars }

\* digestStatusRE.FindStringSubmatch(s): <<whole, group 1>> of the leftmost
\* match, << >> when there is none
digestStatusRE(s) ==
    IF DigestMatchAt(s) = {} THEN << >>
    ELSE LET i == CHOOSE m \in DigestMatchAt(s) : \A o \in DigestMatchAt(s) : m <= o
         IN  << SubSeq(s, i, i + 14 + DigestHexLen),
                SubSeq(s, i + 8, i + 14 + DigestHexLen) >>

\* ------------------------------------------------------------------------
\* The environment of one run: requests, contexts and what the capabilities
\* may answer
\* ------------------------------------------------------------------------

\* *PushImageInput values a run may be given (all fields non-empty, as
\* parsePushContainerImagePayload guarantees)
Inputs ==
    { [Service |-> "doge", Image |-> "nginx:latest", Label |-> "www"],
      [Service |-> "cat", Image |-> "httpd:2", Label |-> "v2"] }

\* context.Context values a run may be given
Contexts == { "ctxRequest" }

\* What CreateContainerServiceRegistryLogin may return
CreateLoginErr == errorsNew("failed: create login")

LoginOutcomes ==
    { [err |-> CreateLoginErr, Username |-> "", Password |-> "", Registry |-> ""] }
    \cup { [err |-> nil, Username |-> "gollum", Password |-> "precious",
            Registry |-> r] :
           r \in { "123456789012.dkr.ecr.so-fake-2.amazonaws.com" } }

\* The clock value and the random source generateUniqueTag may observe
TagSources ==
    { [now |-> [sec |-> 1593224653, nsec |-> 252075123],
       rng |-> <<97, 98, 99, 100, 101, 102, 103, 104, 105>>] }

TagErr == errorsNew("failed: tag")
UntagErr == errorsNew("failed: untag")
RegisterErr == errorsNew("failed: register")

\* Errors the engine's ImagePush call may fail with
ImagePushErrors ==
    { errorsNew("EOF"),
      errorsNew("... does not match the specified platform (linux/amd64)"),
      errorsNew("image does not provide the specified platform (linux/amd64)"),
      errorsNew("does not provide the specified platform (linux/arm64)") }

\* Two digests an engine may report
Digest1 == "sha256:cafe1234cafe1234cafe1234cafe1234cafe1234cafe1234abce5678cdef9012"
Digest2 == "sha256:10b8cc432d56da8b61b070f4c7d2543a9ed17c2b23010b43af434fd40e2ca4aa"

\* What RegisterContainerImage may answer to a request for (service, label,
\* d): an error, or a container image with a digest and a locator
RegisterOutcomes(service, label, d) ==
    { [err |-> RegisterErr, Digest |-> "", Image |-> ""] }
    \cup { [err |-> nil, Digest |-> rd,
            Image |-> ":" \o service \o "." \o label \o ".12345"] :
           rd \in { d, Digest2 } }

\* ------------------------------------------------------------------------
\* Status records of the push response
\* ------------------------------------------------------------------------

\* The aux member of a record: absent, or a JSON value
AuxAbsent == [t |-> "absent", digest |-> ""]
AuxNumber == [t |-> "number", digest |-> ""]
AuxEmptyObject == [t |-> "object", digest |-> ""]
AuxDigest(d) == [t |-> "object", digest |-> d]

\* A raw record of the upstream response: the members jsonmessage.JSONMessage
\* knows (status, aux, errorDetail) and whether it has members it does not
\* know
RawRecord(status, aux, e, extra) ==
    [status |-> status, aux |-> aux, errorDetail |-> e, extra |-> extra]

\* The records the upstream response may carry in a push to server address
\* addr under tag
RawRecords(addr, tag) ==
    { RawRecord("Waiting", AuxAbsent, nil, TRUE),
      RawRecord("The push refers to repository [" \o addr \o "]", AuxAbsent, nil, FALSE),
      RawRecord(tag \o ": digest: " \o Digest2 \o " size: 1819", AuxAbsent, nil, FALSE),
      RawRecord("whatever ... digest: " \o Digest1 \o " ...", AuxAbsent, nil, FALSE),
      RawRecord("", AuxDigest(Digest2), nil, FALSE),
      RawRecord("", AuxEmptyObject, nil, FALSE),
      RawRecord("", AuxNumber, nil, FALSE),
      RawRecord("", AuxAbsent,
                JSONError("... does not provide the specified platform (linux/amd64)"),
                FALSE),
      RawRecord("", AuxAbsent,
                JSONError("does not provide the specified platform (linux/arm64)"),
                FALSE),
      RawRecord(addr, AuxAbsent,
                JSONError("image does not match the specified platform (linux/amd64)"),
                FALSE) }

\* json.Decoder.Decode into a jsonmessage.JSONMessage: unknown members are
\* dropped
JSONMessage(raw) ==
    [Status |-> raw.status, Aux |-> raw.aux, Error |-> raw.errorDetail]

NoMessage == [Status |-> "", Aux |-> AuxAbsent, Error |-> nil, none |-> TRUE]

\* ------------------------------------------------------------------------
\* State
\* ------------------------------------------------------------------------

VARIABLES
    in,               \* the *PushImageInput of the run
    ctx,              \* the context the run was given
    pc,               \* where cs.PushImage is
    authConfig,       \* the registry.AuthConfig of getServiceRegistryAuth
    remoteImage,      \* RemoteImage{AuthConfig, Tag}
    generated,        \* the tags generateUniqueTag returned, in order
    deferred,         \* the arguments of the deferred tryUntagImage calls
    digest,           \* the digest imgo.PushImage returned
    registered,       \* the ContainerImage of the registration response
    err,              \* the error cs.PushImage returns
    trace,            \* the capability calls and returns, in order
    inflight,         \* the capability calls in progress
    stdout,           \* what fmt.Printf wrote
    logged,           \* what the log package wrote
    epc,              \* where DockerEngine.PushImage is
    gotImage,         \* the image reference ImagePush was called with
    imagePushErr,     \* the error ImagePush returned
    input,            \* the raw records decoded from the push response so far
    inputEnd,         \* how the decoding of the push response ended
    inputClosed,      \* pushOutput.Close() has run
    ppc,              \* where the goroutine of scanStatuses is
    pipe,             \* the message written to the pipe and not yet read
    digestFromStatus, \* the variable scanStatuses writes
    digestFromAux,    \* the variable extractDigestFromAux writes
    stderr,           \* the messages rendered to os.Stderr, in order
    pushed,           \* what DockerEngine.PushImage returned: [digest, err]
    skips,            \* the substrings scanStatuses was told to skip
    output,           \* the messages scanStatuses encoded to the pipe, in order
    pipeEnd,          \* the write end of the pipe: [closed, err]
    testNow,          \* the time source of generateUniqueTag
    testRngReader,    \* the bytes the random source of generateUniqueTag still holds
    observed,         \* what each generateUniqueTag call read: [now, bytes]
    payload,          \* the payload field of the plugin input
    osArgs,           \* os.Args of the process
    pluginCalls,      \* the calls of pluginMain: [progname, args], in order
    fatal,            \* the message of the log.Fatal call that ended the process
    envelope,         \* the plugin input parseInput reads
    parsed,           \* what parseInput returned: [in, err]
    inUse,            \* the version CheckForUpdates is told is in use
    metadata,         \* what GetContainerAPIMetadata answers: [err, value]
    debugLogged,      \* what the debug logger wrote
    cancelled         \* the contexts that are done

orchVars == <<in, ctx, pc, authConfig, remoteImage, generated, deferred,
              digest, registered, err, trace, inflight, stdout>>
engineVars == <<epc, gotImage, imagePushErr, input, inputEnd, inputClosed, ppc, pipe,
                digestFromStatus, digestFromAux, stderr, pushed>>
scanVars == <<skips, output, pipeEnd>>
tagVars == <<testNow, testRngReader, observed>>
mainVars == <<osArgs, pluginCalls, fatal, envelope, parsed, inUse, metadata,
              debugLogged>>
vars == <<orchVars, logged, engineVars, scanVars, tagVars, payload, mainVars,
          cancelled>>

NoAuth == [Username |-> "", Password |-> "", ServerAddress |-> ""]

\* An io.Pipe whose write end is open
PipeOpen == [closed |-> FALSE, err |-> nil]

\* No plugin input, and the Input of a parseInput that has not returned one
NoEnvelope == [kind |-> "none", inputVersion |-> "", operation |-> ""]
NoPluginInput == [InputVersion |-> "", Operation |-> ""]

\* A run in which main, parseInput and CheckForUpdates are not called
MainIdle ==
    /\ osArgs = << >>
    /\ pluginCalls = << >>
    /\ fatal = ""
    /\ envelope = NoEnvelope
    /\ parsed = [in |-> NoPluginInput, err |-> nil]
    /\ inUse = ""
    /\ metadata = [err |-> nil, Metadata |-> << >>]
    /\ debugLogged = << >>

\* A run that was not started from a payload
NoPayload == [ok |-> TRUE, obj |-> << >>]

Init ==
    /\ in \in Inputs
    /\ ctx \in Contexts
    /\ cancelled = {}
    /\ pc = "start"
    /\ authConfig = NoAuth
    /\ remoteImage = [AuthConfig |-> NoAuth, Tag |-> ""]
    /\ generated = << >>
    /\ deferred = << >>
    /\ digest = ""
    /\ registered = [Digest |-> "", Image |-> ""]
    /\ err = nil
    /\ trace = << >>
    /\ inflight = {}
    /\ stdout = << >>
    /\ logged = << >>
    /\ epc = "idle"
    /\ gotImage = ""
    /\ imagePushErr = nil
    /\ input = << >>
    /\ inputEnd = ""
    /\ inputClosed = FALSE
    /\ ppc = "none"
    /\ pipe = NoMessage
    /\ digestFromStatus = ""
    /\ digestFromAux = ""
    /\ stderr = << >>
    /\ pushed = [digest |-> "", err |-> nil]
    /\ skips = << >>
    /\ output = << >>
    /\ pipeEnd = PipeOpen
    /\ \E src \in TagSources :
          /\ testNow = src.now
          /\ testRngReader = src.rng
    /\ observed = << >>
    /\ payload = NoPayload
    /\ MainIdle

\* ------------------------------------------------------------------------
\* cs.PushImage
\* ------------------------------------------------------------------------

\* The error of a context that is done
ContextErr == errorsNew("context canceled")

\* What a call under the context c may fail with on account of c
CancelErrors(c) == IF c \in cancelled THEN {ContextErr} ELSE {}

\* A capability call starts / returns
Call(op, args) ==
    /\ trace' = Append(trace, [ev |-> "call", op |-> op, args |-> args, err |-> nil])
    /\ inflight' = inflight \cup {op}

Return(op, e) ==
    /\ trace' = Append(trace, [ev |-> "return", op |-> op, args |-> << >>, err |-> e])
    /\ inflight' = inflight \ {op}

\* A capability call returns the values vals and the error e
ReturnWith(op, vals, e) ==
    /\ trace' = Append(trace, [ev |-> "return", op |-> op, args |-> vals, err |-> e])
    /\ inflight' = inflight \ {op}

\* getServiceRegistryAuth that wraps the error of the login call
getServiceRegistryAuth_wrapped(out) ==
    IF out.err # nil
    THEN [authConfig |-> NoAuth,
          err |-> errorsNew("registry login: " \o ErrorText(out.err))]
    ELSE [authConfig |-> [Username |-> out.Username,
                          Password |-> out.Password,
                          ServerAddress |-> out.Registry \o "/sr"],
          err |-> nil]

\* getServiceRegistryAuth turns what the login call returned into
\* (authConfig, err): the error as it is, or the credentials with the server
\* address Registry + "/sr"
getServiceRegistryAuth(out) ==
    IF out.err # nil
    THEN [authConfig |-> NoAuth, err |-> out.err]
    ELSE [authConfig |-> [Username |-> out.Username,
                          Password |-> out.Password,
                          ServerAddress |-> out.Registry \o "/sr"],
          err |-> nil]

\* ReturnPC of a PushImage whose cleanup is not deferred: an early return
\* skips it
ReturnPC_noCleanup(d) == "done"

\* Where PushImage goes at a return statement: the deferred calls d run
\* before it returns
ReturnPC(d) == IF d = << >> THEN "done" ELSE "deferred"

\* DeferredAfterTag with the defer statement ahead of the error check
DeferredAfterTag_beforeCheck(e) ==
    Append(deferred, [ctx |-> ctx, image |-> Ref(remoteImage)])

\* The deferred calls after TagImage returned e: tryUntagImage(ctx, imgo,
\* remoteImage.Ref()) is deferred only past the error check
DeferredAfterTag(e) ==
    IF e # nil THEN deferred
    ELSE Append(deferred, [ctx |-> ctx, image |-> Ref(remoteImage)])

\* AfterPush that drops the error of imgo.PushImage
AfterPush_errorIgnored(e) == "pushed"

\* AfterPush that calls imgo.PushImage again when it failed
AfterPush_retried(e) == IF e # nil THEN "tagged" ELSE "pushed"

\* Where PushImage goes after imgo.PushImage returned e
AfterPush(e) == IF e # nil THEN ReturnPC(deferred) ELSE "pushed"

\* RegisterArgs with the service name and the label swapped
RegisterArgs_swapped == <<ctx, in.Label, in.Service, digest>>

\* The arguments of the RegisterContainerImage call
RegisterArgs == <<ctx, in.Service, in.Label, digest>>

\* UntagArgs with a context of its own
UntagArgs_ownContext == <<"ctxCleanup", deferred[1].image>>

\* UntagArgs that names the tag instead of the whole reference
UntagArgs_tagOnly == <<deferred[1].ctx, remoteImage.Tag>>

\* The arguments of the UntagImage call of the deferred tryUntagImage
UntagArgs == <<deferred[1].ctx, deferred[1].image>>

\* tryUntagImage that hands the error of UntagImage to the caller
tryUntagImage_returned(e, result) == IF e # nil THEN e ELSE result

\* What PushImage returns after tryUntagImage ran and UntagImage returned
\* e, when it was about to return result: tryUntagImage has no result
tryUntagImage(e, result) == result

\* getServiceRegistryAuth calls CreateContainerServiceRegistryLogin
LoginCall ==
    /\ pc = "start"
    /\ pc' = "login"
    /\ Call("login", <<ctx>>)
    /\ UNCHANGED <<scanVars, tagVars, payload, mainVars, cancelled>>
    /\ UNCHANGED <<in, ctx, authConfig, remoteImage, generated, deferred,
                   digest, registered, err, stdout, logged, engineVars>>

\* The login call returns: PushImage returns its error, or keeps the
\* credentials with the server address Registry + "/sr"
LoginReturn ==
    /\ pc = "login"
    /\ \E out \in LoginOutcomes
                   \cup { [err |-> e, Username |-> "", Password |-> "", Registry |-> ""] :
                           e \in CancelErrors(ctx) } :
          /\ ReturnWith("login", <<out.Username, out.Password, out.Registry>>, out.err)
          /\ IF getServiceRegistryAuth(out).err # nil
             THEN /\ err' = getServiceRegistryAuth(out).err
                  /\ pc' = ReturnPC(deferred)
                  /\ UNCHANGED authConfig
             ELSE /\ authConfig' = getServiceRegistryAuth(out).authConfig
                  /\ pc' = "loggedIn"
                  /\ UNCHANGED err
    /\ UNCHANGED <<scanVars, tagVars, payload, mainVars, cancelled>>
    /\ UNCHANGED <<in, ctx, remoteImage, generated, deferred, digest,
                   registered, stdout, logged, engineVars>>

\* remoteImage is built with a fresh tag and TagImage is called
TagCall ==
    /\ pc = "loggedIn"
    /\ Len(testRngReader) >= RandomLen
    /\ LET r == [AuthConfig |-> authConfig,
                 Tag |-> generateUniqueTag(testNow, testRngReader)]
       IN  /\ remoteImage' = r
           /\ generated' = Append(generated, r.Tag)
           /\ Call("tag", <<ctx, in.Image, Ref(r)>>)
    /\ observed' = Append(observed, Observation(testNow, testRngReader))
    /\ testRngReader' = ReadFull(testRngReader)
    /\ UNCHANGED testNow
    /\ pc' = "tag"
    /\ UNCHANGED <<scanVars, payload, mainVars, cancelled>>
    /\ UNCHANGED <<in, ctx, authConfig, deferred, digest, registered, err,
                   stdout, logged, engineVars>>

\* TagImage returns: PushImage returns its error, or defers tryUntagImage
\* with the reference it tagged
TagReturn ==
    /\ pc = "tag"
    /\ \E e \in {nil, TagErr} \cup CancelErrors(ctx) :
          /\ Return("tag", e)
          /\ deferred' = DeferredAfterTag(e)
          /\ IF e # nil
             THEN /\ err' = e
                  /\ pc' = ReturnPC(deferred')
             ELSE /\ pc' = "tagged"
                  /\ UNCHANGED err
    /\ UNCHANGED <<scanVars, tagVars, payload, mainVars, cancelled>>
    /\ UNCHANGED <<in, ctx, authConfig, remoteImage, generated, digest,
                   registered, stdout, logged, engineVars>>

\* imgo.PushImage is called; DockerEngine.PushImage calls ImagePush for
\* remoteImage.Ref()
PushCall ==
    /\ pc = "tagged"
    /\ pc' = "push"
    /\ Call("push", <<ctx, remoteImage>>)
    /\ epc' = "ImagePush"
    /\ gotImage' = Ref(remoteImage)
    /\ UNCHANGED <<scanVars, tagVars, payload, mainVars, cancelled>>
    /\ UNCHANGED <<in, ctx, authConfig, remoteImage, generated, deferred,
                   digest, registered, err, stdout, logged, imagePushErr, input,
                   inputEnd, inputClosed, ppc, pipe, digestFromStatus, digestFromAux,
                   stderr, pushed>>

\* imgo.PushImage returns: on an error PushImage returns it (the deferred
\* untag runs), otherwise it goes on with the digest
PushReturn ==
    /\ pc = "push"
    /\ epc = "returned"
    /\ Return("push", pushed.err)
    /\ pc' = AfterPush(pushed.err)
    /\ IF pushed.err # nil
       THEN /\ err' = pushed.err
            /\ UNCHANGED digest
       ELSE /\ digest' = pushed.digest
            /\ UNCHANGED err
    /\ UNCHANGED <<scanVars, tagVars, payload, mainVars, cancelled>>
    /\ UNCHANGED <<in, ctx, authConfig, remoteImage, generated, deferred,
                   registered, stdout, logged, engineVars>>

\* RegisterContainerImage is called with the service name, the label and
\* the digest
RegisterCall ==
    /\ pc = "pushed"
    /\ pc' = "register"
    /\ Call("register", RegisterArgs)
    /\ UNCHANGED <<scanVars, tagVars, payload, mainVars, cancelled>>
    /\ UNCHANGED <<in, ctx, authConfig, remoteImage, generated, deferred,
                   digest, registered, err, stdout, logged, engineVars>>

\* Confirmation that prints the digest that was pushed
Confirmation_pushedDigest(image, reg) ==
    << "Digest: " \o digest,
       "Image \"" \o image \o "\" registered.",
       "Refer to this image as \"" \o reg.Image \o "\" in deployments." >>

\* The confirmation block fmt.Printf writes (%q of a plain string is the
\* string in double quotes)
Confirmation(image, reg) ==
    << "Digest: " \o reg.Digest,
       "Image \"" \o image \o "\" registered.",
       "Refer to this image as \"" \o reg.Image \o "\" in deployments." >>

\* Printed with the confirmation block ahead of the error check
Printed_beforeCheck(image, out) ==
    Confirmation(image, [Digest |-> out.Digest, Image |-> out.Image])

\* What PushImage prints when RegisterContainerImage answered out: nothing
\* on an error
Printed(image, out) ==
    IF out.err # nil THEN << >>
    ELSE Confirmation(image, [Digest |-> out.Digest, Image |-> out.Image])

\* RegisterContainerImage returns: PushImage returns its error, or prints
\* the confirmation block and returns nil; the deferred untag runs next
RegisterReturn ==
    /\ pc = "register"
    /\ \E out \in RegisterOutcomes(in.Service, in.Label, digest)
                   \cup { [err |-> e, Digest |-> "", Image |-> ""] :
                           e \in CancelErrors(ctx) } :
          /\ ReturnWith("register", <<out.Digest, out.Image>>, out.err)
          /\ stdout' = stdout \o Printed(in.Image, out)
          /\ err' = out.err
          /\ registered' = IF out.err # nil THEN registered
                            ELSE [Digest |-> out.Digest, Image |-> out.Image]
    /\ pc' = ReturnPC(deferred)
    /\ UNCHANGED <<scanVars, tagVars, payload, mainVars, cancelled>>
    /\ UNCHANGED <<in, ctx, authConfig, remoteImage, generated, deferred,
                   digest, logged, engineVars>>

\* The deferred tryUntagImage calls UntagImage
UntagCall ==
    /\ pc = "deferred"
    /\ pc' = "untag"
    /\ Call("untag", UntagArgs)
    /\ UNCHANGED <<scanVars, tagVars, payload, mainVars, cancelled>>
    /\ UNCHANGED <<in, ctx, authConfig, remoteImage, generated, deferred,
                   digest, registered, err, stdout, logged, engineVars>>

\* UntagImage returns: tryUntagImage logs its error; PushImage returns err
UntagReturn ==
    /\ pc = "untag"
    /\ \E e \in {nil, UntagErr} \cup CancelErrors(UntagArgs[1]) :
          /\ Return("untag", e)
          /\ logged' = IF e # nil THEN Append(logged, ErrorText(e)) ELSE logged
          /\ err' = tryUntagImage(e, err)
    /\ pc' = "done"
    /\ UNCHANGED <<scanVars, tagVars, payload, mainVars, cancelled>>
    /\ UNCHANGED <<in, ctx, authConfig, remoteImage, generated, deferred,
                   digest, registered, stdout, engineVars>>

\* ------------------------------------------------------------------------
\* DockerEngine.PushImage, scanStatuses and the rendering of the stream
\* ------------------------------------------------------------------------

\* The error DockerEngine.PushImage returns when ImagePush fails with e
CallError(e) ==
    IF platformErrorRE(platform, ErrorText(e))
    THEN platformError(platform, e)
    ELSE e

\* StreamError of a DockerEngine.PushImage that drops the error of the
\* rendering
StreamError_dropped(e) == nil

\* StreamError that never looks for the platform pattern
StreamError_unwrapped(e) == e

\* The error DockerEngine.PushImage returns when DisplayJSONMessagesStream
\* fails with e
StreamError(e) ==
    IF e.kind = "JSONError" /\ platformErrorRE(platform, e.Message)
    THEN platformError(platform, e)
    ELSE e

\* DigestResult that returns the digest of the aux payload without a look
\* at it
DigestResult_auxUnchecked(fromStatus, fromAux) ==
    CASE fromStatus # "" -> [digest |-> fromStatus, err |-> nil]
      [] OTHER -> [digest |-> fromAux, err |-> nil]

\* DigestResult without the check for a missing digest
DigestResult_noCheck(fromStatus, fromAux) ==
    [digest |-> IF fromStatus # "" THEN fromStatus ELSE fromAux, err |-> nil]

\* DigestResult that prefers the digest of the aux payload
DigestResult_auxFirst(fromStatus, fromAux) ==
    CASE fromAux # "" -> [digest |-> fromAux, err |-> nil]
      [] fromStatus # "" -> [digest |-> fromStatus, err |-> nil]
      [] OTHER -> [digest |-> "",
                   err |-> errorsNew("image push response does not contain the image digest")]

\* The result of DockerEngine.PushImage once the stream was rendered
\* without error
DigestResult(fromStatus, fromAux) ==
    CASE fromStatus # "" -> [digest |-> fromStatus, err |-> nil]
      [] fromAux # "" -> [digest |-> fromAux, err |-> nil]
      [] OTHER -> [digest |-> "",
                   err |-> errorsNew("image push response does not contain the image digest")]

\* Skips without the tag
Skips_noTag == <<remoteImage.AuthConfig.ServerAddress>>

\* The substrings scanStatuses is told to skip
Skips == <<remoteImage.AuthConfig.ServerAddress, remoteImage.Tag>>

\* Skipped that compares the status with the first substring only
Skipped_firstOnly(m, subs) == Len(subs) >= 1 /\ Contains(m.Status, subs[1])

\* A message is skipped when its status contains one of skips
Skipped(m, subs) == \E i \in 1..Len(subs) : Contains(m.Status, subs[i])

\* StatusDigest of a scanStatuses that looks for the digest only in the
\* messages it does not skip
StatusDigest_afterSkips(old, status) ==
    IF \E i \in 1..Len(skips) : Contains(status, skips[i]) THEN old
    ELSE IF Len(digestStatusRE(status)) = 2 THEN digestStatusRE(status)[2]
    ELSE old

\* StatusDigest of a scanStatuses that matches the digest without storing it
StatusDigest_unwritten(old, status) == old

\* The digest variable after scanStatuses saw status
StatusDigest(old, status) ==
    IF Len(digestStatusRE(status)) = 2 THEN digestStatusRE(status)[2] ELSE old

\* AuxDigestAfter of a callback that clears the digest when it cannot decode
AuxDigestAfter_cleared(old, aux) == IF aux.t = "object" THEN aux.digest ELSE ""

\* The digest variable after the callback of extractDigestFromAux saw aux:
\* json.Unmarshal into struct{ Digest string } fails on anything but an
\* object, and leaves Digest empty when the object has no digest
AuxDigestAfter(old, aux) == IF aux.t = "object" THEN aux.digest ELSE old

\* PipeClose of a goroutine that hands the decoding error to the reader, as
\* w.CloseWithError(err) would
PipeClose_withError(end) ==
    [closed |-> TRUE,
     err |-> IF end = "malformed" THEN errorsNew("invalid character") ELSE nil]

\* PipeClose of a goroutine that closes the pipe only at the end of the input
PipeClose_onlyAtEOF(end) == [closed |-> end # "malformed", err |-> nil]

\* The write end of the pipe after the goroutine of scanStatuses left its
\* loop because Decode ended with end: the deferred w.Close() closes it
\* without an error, so that readers get io.EOF
PipeClose(end) == [closed |-> TRUE, err |-> nil]

\* ImagePush fails: DockerEngine.PushImage returns the error, wrapped when
\* it matches the platform pattern
ImagePushFails ==
    /\ epc = "ImagePush"
    /\ \E e \in ImagePushErrors \cup CancelErrors(ctx) :
          /\ imagePushErr' = e
          /\ pushed' = [digest |-> "", err |-> CallError(e)]
    /\ epc' = "returned"
    /\ UNCHANGED <<scanVars, tagVars, payload, mainVars, cancelled>>
    /\ UNCHANGED <<orchVars, logged, gotImage, input, inputEnd, inputClosed,
                   ppc, pipe, digestFromStatus, digestFromAux, stderr>>

\* ImagePush returns the response body: scanStatuses starts its goroutine
\* and DisplayJSONMessagesStream starts reading the pipe
ImagePushOK ==
    /\ epc = "ImagePush"
    /\ epc' = "display"
    /\ ppc' = "decode"
    /\ skips' = Skips
    /\ UNCHANGED <<output, pipeEnd, tagVars, payload, mainVars, cancelled>>
    /\ UNCHANGED <<orchVars, logged, gotImage, imagePushErr, input, inputEnd,
                   inputClosed, pipe, digestFromStatus, digestFromAux, stderr, pushed>>

\* The goroutine decodes one more record: it records a digest of the status
\* text, then skips the message or writes it to the pipe
ProducerDecode ==
    /\ ppc = "decode"
    /\ Len(input) < MaxRecords
    /\ \E raw \in RawRecords(remoteImage.AuthConfig.ServerAddress, remoteImage.Tag) :
          LET m == JSONMessage(raw)
          IN  /\ input' = Append(input, raw)
              /\ digestFromStatus' = StatusDigest(digestFromStatus, m.Status)
              /\ IF Skipped(m, skips)
                 THEN UNCHANGED <<ppc, pipe, output>>
                 ELSE /\ pipe' = m
                      /\ output' = Append(output, m)
                      /\ ppc' = "write"
    /\ UNCHANGED <<skips, pipeEnd, tagVars, payload, mainVars, cancelled>>
    /\ UNCHANGED <<orchVars, logged, epc, gotImage, imagePushErr, inputEnd, inputClosed,
                   digestFromAux, stderr, pushed>>

\* Decode fails: at the end of the response, on a closed response body, or
\* on a record that is not JSON (which is logged); the goroutine closes the
\* pipe and exits
ProducerEnd ==
    /\ ppc = "decode"
    /\ \E end \in {"EOF", "malformed", "closed"} :
          /\ end = "closed" => inputClosed
          /\ inputEnd' = end
          /\ logged' = IF end = "malformed"
                       THEN Append(logged, "scanStatuses: invalid character")
                       ELSE logged
          /\ pipeEnd' = PipeClose(end)
    /\ ppc' = "closed"
    /\ UNCHANGED <<skips, output, tagVars, payload, mainVars, cancelled>>
    /\ UNCHANGED <<orchVars, epc, gotImage, imagePushErr, input, inputClosed, pipe,
                   digestFromStatus, digestFromAux, stderr, pushed>>

\* WriteReturns of a pipe with a buffer
WriteReturns_buffered(p) == TRUE

\* enc.Encode(m) writes to the io.Pipe, which has no buffer: the Write
\* returns when the message in the pipe p has been read
WriteReturns(p) == p = NoMessage

\* The write to the pipe returns once the message was read
ProducerWritten ==
    /\ ppc = "write"
    /\ WriteReturns(pipe)
    /\ ppc' = "decode"
    /\ UNCHANGED <<scanVars, tagVars, payload, mainVars, cancelled>>
    /\ UNCHANGED <<orchVars, logged, epc, gotImage, imagePushErr, input, inputEnd,
                   inputClosed, pipe, digestFromStatus, digestFromAux, stderr,
                   pushed>>

\* DisplayJSONMessagesStream reads a message: one with aux goes to the
\* callback, one with an error ends the rendering with that error, any
\* other is rendered
ConsumerRead ==
    /\ epc = "display"
    /\ pipe # NoMessage
    /\ pipe' = NoMessage
    /\ CASE pipe.Aux # AuxAbsent ->
              /\ digestFromAux' = AuxDigestAfter(digestFromAux, pipe.Aux)
              /\ logged' = IF pipe.Aux.t # "object"
                           THEN Append(logged, "extractDigest: cannot unmarshal")
                           ELSE logged
              /\ UNCHANGED <<epc, inputClosed, stderr, pushed>>
         [] pipe.Aux = AuxAbsent /\ pipe.Error # nil ->
              /\ pushed' = [digest |-> "", err |-> StreamError(pipe.Error)]
              /\ epc' = "returned"
              /\ inputClosed' = TRUE
              /\ UNCHANGED <<digestFromAux, logged, stderr>>
         [] OTHER ->
              /\ stderr' = Append(stderr, pipe)
              /\ UNCHANGED <<epc, inputClosed, digestFromAux, logged, pushed>>
    /\ UNCHANGED <<scanVars, tagVars, payload, mainVars, cancelled>>
    /\ UNCHANGED <<orchVars, gotImage, imagePushErr, input, inputEnd, ppc,
                   digestFromStatus>>

\* DisplayJSONMessagesStream reads the end of the pipe: on io.EOF it returns
\* nil and DockerEngine.PushImage returns the digest it has, or the missing
\* digest error; on any other error of the pipe it returns that error
ConsumerEOF ==
    /\ epc = "display"
    /\ pipe = NoMessage
    /\ pipeEnd.closed
    /\ pushed' = IF pipeEnd.err = nil
                 THEN DigestResult(digestFromStatus, digestFromAux)
                 ELSE [digest |-> "", err |-> StreamError(pipeEnd.err)]
    /\ epc' = "returned"
    /\ inputClosed' = TRUE
    /\ UNCHANGED <<scanVars, tagVars, payload, mainVars, cancelled>>
    /\ UNCHANGED <<orchVars, logged, gotImage, imagePushErr, input, inputEnd, ppc,
                   pipe,
                   digestFromStatus, digestFromAux, stderr>>

\* ------------------------------------------------------------------------
\* The specification of one run
\* ------------------------------------------------------------------------

Next ==
    \/ LoginCall
    \/ LoginReturn
    \/ TagCall
    \/ TagReturn
    \/ PushCall
    \/ ImagePushFails
    \/ ImagePushOK
    \/ ProducerDecode
    \/ ProducerEnd
    \/ ProducerWritten
    \/ ConsumerRead
    \/ ConsumerEOF
    \/ PushReturn
    \/ RegisterCall
    \/ RegisterReturn
    \/ UntagCall
    \/ UntagReturn

Spec == Init /\ [][Next]_vars

\* One run in which every call returns, both goroutines are scheduled, and
\* the push response ends or is read after pushOutput.Close(): each step
\* that stays possible is taken
LivePush ==
    /\ Spec
    /\ WF_vars(LoginCall) /\ WF_vars(LoginReturn)
    /\ WF_vars(TagCall) /\ WF_vars(TagReturn)
    /\ WF_vars(PushCall) /\ WF_vars(ImagePushFails \/ ImagePushOK)
    /\ WF_vars(ProducerDecode) /\ WF_vars(ProducerEnd) /\ WF_vars(ProducerWritten)
    /\ WF_vars(ConsumerRead) /\ WF_vars(ConsumerEOF)
    /\ WF_vars(PushReturn)
    /\ WF_vars(RegisterCall) /\ WF_vars(RegisterReturn)
    /\ WF_vars(UntagCall) /\ WF_vars(UntagReturn)

\* ------------------------------------------------------------------------
\* One run of cs.PushImage whose context may be cancelled
\* ------------------------------------------------------------------------

\* The caller cancels the context of the run, at any time
Cancel ==
    /\ pc # "done"
    /\ ctx \notin cancelled
    /\ cancelled' = cancelled \cup {ctx}
    /\ UNCHANGED <<orchVars, logged, engineVars, scanVars, tagVars, payload, mainVars>>

NextCancel ==
    \/ Cancel
    \/ Next

SpecCancel == Init /\ [][NextCancel]_vars

\* ------------------------------------------------------------------------
\* scanStatuses on its own, read with io.Copy as in Example_scanStatuses
\* ------------------------------------------------------------------------

\* The image whose push response scanStatuses reads
ScannedImage ==
    [AuthConfig |-> [Username |-> "gollum", Password |-> "precious",
                     ServerAddress |-> "123456789012.dkr.ecr.so-fake-2.amazonaws.com/sr"],
     Tag |-> "1593224653252075123-c5h66p35cpjmg"]

\* The skips arguments scanStatuses may be called with
ScanSkips ==
    { << >>,
      <<ScannedImage.AuthConfig.ServerAddress, ScannedImage.Tag>>,
      <<"Waiting", "digest: ">>,
      <<"refers to", "Waiting">>,
      <<"">> }

InitScan ==
    /\ in = [Service |-> "", Image |-> "", Label |-> ""]
    /\ ctx \in Contexts
    /\ cancelled = {}
    /\ pc = "scan"
    /\ authConfig = NoAuth
    /\ remoteImage = ScannedImage
    /\ generated = << >>
    /\ deferred = << >>
    /\ digest = ""
    /\ registered = [Digest |-> "", Image |-> ""]
    /\ err = nil
    /\ trace = << >>
    /\ inflight = {}
    /\ stdout = << >>
    /\ logged = << >>
    /\ epc = "copy"
    /\ gotImage = ""
    /\ imagePushErr = nil
    /\ input = << >>
    /\ inputEnd = ""
    /\ inputClosed = FALSE
    /\ ppc = "decode"
    /\ pipe = NoMessage
    /\ digestFromStatus = ""
    /\ digestFromAux = ""
    /\ stderr = << >>
    /\ pushed = [digest |-> "", err |-> nil]
    /\ skips \in ScanSkips
    /\ output = << >>
    /\ pipeEnd = PipeOpen
    /\ \E src \in TagSources :
          /\ testNow = src.now
          /\ testRngReader = src.rng
    /\ observed = << >>
    /\ payload = NoPayload
    /\ MainIdle

\* io.Copy reads a message from the pipe and writes it to os.Stdout
CopyRead ==
    /\ epc = "copy"
    /\ pipe # NoMessage
    /\ pipe' = NoMessage
    /\ stdout' = Append(stdout, pipe)
    /\ UNCHANGED <<in, ctx, pc, authConfig, remoteImage, generated, deferred,
                   digest, registered, err, trace, inflight, logged>>
    /\ UNCHANGED <<epc, gotImage, imagePushErr, input, inputEnd, inputClosed, ppc,
                   digestFromStatus, digestFromAux, stderr, pushed>>
    /\ UNCHANGED <<scanVars, tagVars, payload, mainVars, cancelled>>

\* io.Copy reads the end of the pipe: it returns nil on io.EOF and the
\* error of the pipe otherwise
CopyEOF ==
    /\ epc = "copy"
    /\ pipe = NoMessage
    /\ pipeEnd.closed
    /\ epc' = IF pipeEnd.err = nil THEN "copied" ELSE "copyFailed"
    /\ UNCHANGED <<orchVars, logged, gotImage, imagePushErr, input, inputEnd,
                   inputClosed, ppc, pipe, digestFromStatus, digestFromAux, stderr,
                   pushed>>
    /\ UNCHANGED <<scanVars, tagVars, payload, mainVars, cancelled>>

NextScan ==
    \/ ProducerDecode
    \/ ProducerEnd
    \/ ProducerWritten
    \/ CopyRead
    \/ CopyEOF

SpecScan == InitScan /\ [][NextScan]_vars

\* ------------------------------------------------------------------------
\* invokeOperation from the payload of a PushContainerImage input on
\* ------------------------------------------------------------------------

\* The member values the payloads are made of
PayloadValues ==
    [service |-> "dyservicev3", image |-> "hello:latest", label |-> "david16"]

\* The payload fields invokeOperation may be given: JSON that is no object,
\* or an object in which each of the three members is missing, empty or set
Payloads ==
    { [ok |-> FALSE, obj |-> << >>] }
    \cup { [ok |-> TRUE, obj |-> f] :
           f \in UNION { { g \in [D -> {"", "dyservicev3", "hello:latest", "david16"}] :
                             \A n \in D : g[n] \in {"", PayloadValues[n]} } :
                         D \in SUBSET {"service", "image", "label"} } }

\* The PushImageInput of a parse that failed
NoInput == [Service |-> "", Image |-> "", Label |-> ""]

\* The member name of the object obj as json.Unmarshal stores it in a
\* string field: a missing member leaves the field empty
Field(obj, name) == IF name \in DOMAIN obj THEN obj[name] ELSE ""

\* json.Unmarshal(data, &p)
UnmarshalPayload(data) ==
    IF data.ok
    THEN [err |-> nil,
          Service |-> Field(data.obj, "service"),
          Image |-> Field(data.obj, "image"),
          Label |-> Field(data.obj, "label")]
    ELSE [err |-> errorsNew("json: cannot unmarshal"),
          Service |-> "", Image |-> "", Label |-> ""]

\* PayloadChecks without the check of the container label
PayloadChecks_noLabel(p) ==
    << [what |-> "service name", input |-> p.Service],
       [what |-> "container image", input |-> p.Image] >>

\* The checks parsePushContainerImagePayload makes, in their order
PayloadChecks(p) ==
    << [what |-> "service name", input |-> p.Service],
       [what |-> "container image", input |-> p.Image],
       [what |-> "container label", input |-> p.Label] >>

\* parsePushContainerImagePayload(data): the error of json.Unmarshal, or the
\* error of the first check whose input is empty, or the PushImageInput
parsePushContainerImagePayload(data) ==
    LET p == UnmarshalPayload(data)
        checks == PayloadChecks(p)
        failing == { i \in 1..Len(checks) : Len(checks[i].input) = 0 }
        first == CHOOSE i \in failing : \A j \in failing : i <= j
    IN  IF p.err # nil THEN [in |-> NoInput, err |-> p.err]
        ELSE IF failing # {}
        THEN [in |-> NoInput,
              err |-> errorsNew("push container image: " \o checks[first].what
                                    \o " is not specified")]
        ELSE [in |-> [Service |-> p.Service, Image |-> p.Image, Label |-> p.Label],
              err |-> nil]

NewDockerEngineErr == errorsNew("failed: new docker client")

InitPlugin ==
    /\ in = NoInput
    /\ ctx \in Contexts
    /\ cancelled = {}
    /\ pc = "parsePayload"
    /\ authConfig = NoAuth
    /\ remoteImage = [AuthConfig |-> NoAuth, Tag |-> ""]
    /\ generated = << >>
    /\ deferred = << >>
    /\ digest = ""
    /\ registered = [Digest |-> "", Image |-> ""]
    /\ err = nil
    /\ trace = << >>
    /\ inflight = {}
    /\ stdout = << >>
    /\ logged = << >>
    /\ epc = "idle"
    /\ gotImage = ""
    /\ imagePushErr = nil
    /\ input = << >>
    /\ inputEnd = ""
    /\ inputClosed = FALSE
    /\ ppc = "none"
    /\ pipe = NoMessage
    /\ digestFromStatus = ""
    /\ digestFromAux = ""
    /\ stderr = << >>
    /\ pushed = [digest |-> "", err |-> nil]
    /\ skips = << >>
    /\ output = << >>
    /\ pipeEnd = PipeOpen
    /\ \E src \in TagSources :
          /\ testNow = src.now
          /\ testRngReader = src.rng
    /\ observed = << >>
    /\ payload \in Payloads
    /\ MainIdle

\* invokeOperation parses the payload: it returns the error, wrapped, or
\* goes on with the PushImageInput
ParsePayload ==
    /\ pc = "parsePayload"
    /\ LET r == parsePushContainerImagePayload(payload)
       IN  IF r.err # nil
           THEN /\ err' = errorsNew("unable to parse the input's payload field: "
                                        \o ErrorText(r.err))
                /\ pc' = "done"
                /\ UNCHANGED in
           ELSE /\ in' = r.in
                /\ pc' = "newDockerEngine"
                /\ UNCHANGED err
    /\ UNCHANGED <<ctx, authConfig, remoteImage, generated, deferred, digest,
                   registered, trace, inflight, stdout, logged, engineVars>>
    /\ UNCHANGED <<scanVars, tagVars, payload, mainVars, cancelled>>

\* invokeOperation makes the Docker Engine client: it returns the error, or
\* calls cs.PushImage
NewDockerEngine ==
    /\ pc = "newDockerEngine"
    /\ \E e \in {nil, NewDockerEngineErr} :
          IF e # nil
          THEN /\ err' = e
               /\ pc' = "done"
          ELSE /\ pc' = "start"
               /\ UNCHANGED err
    /\ UNCHANGED <<in, ctx, authConfig, remoteImage, generated, deferred, digest,
                   registered, trace, inflight, stdout, logged, engineVars>>
    /\ UNCHANGED <<scanVars, tagVars, payload, mainVars, cancelled>>

NextPlugin ==
    \/ ParsePayload
    \/ NewDockerEngine
    \/ Next

SpecPlugin == InitPlugin /\ [][NextPlugin]_vars

\* ------------------------------------------------------------------------
\* generateUniqueTag on its own, with testNow and testRngReader set as in
\* TestGenerateUniqueTag
\* ------------------------------------------------------------------------

\* The values testNow may return
Times ==
    { [sec |-> 1593224653, nsec |-> 252075123],
      [sec |-> 1593224653, nsec |-> 5],
      [sec |-> 1, nsec |-> 0],
      [sec |-> 0, nsec |-> 0],
      [sec |-> 0, nsec |-> 999999999] }

\* The bytes testRngReader may hold
RngReaders ==
    { <<97, 98, 99, 100, 101, 102, 103, 104>>,
      <<97, 98, 99, 100, 101, 102, 103, 104, 97, 98, 99, 100, 101, 102, 103, 104>>,
      <<0, 0, 0, 0, 0, 0, 0, 0, 255, 255, 255, 255, 255, 255, 255, 255>>,
      <<255, 254, 253, 252, 251, 250, 249, 248, 1, 2, 3>>,
      <<1, 35, 69, 103, 137, 171, 205, 239, 104, 103, 102, 101, 100, 99, 98, 97>> }

InitTag ==
    /\ in = NoInput
    /\ ctx \in Contexts
    /\ cancelled = {}
    /\ pc = "tagTest"
    /\ authConfig = NoAuth
    /\ remoteImage = [AuthConfig |-> NoAuth, Tag |-> ""]
    /\ generated = << >>
    /\ deferred = << >>
    /\ digest = ""
    /\ registered = [Digest |-> "", Image |-> ""]
    /\ err = nil
    /\ trace = << >>
    /\ inflight = {}
    /\ stdout = << >>
    /\ logged = << >>
    /\ epc = "idle"
    /\ gotImage = ""
    /\ imagePushErr = nil
    /\ input = << >>
    /\ inputEnd = ""
    /\ inputClosed = FALSE
    /\ ppc = "none"
    /\ pipe = NoMessage
    /\ digestFromStatus = ""
    /\ digestFromAux = ""
    /\ stderr = << >>
    /\ pushed = [digest |-> "", err |-> nil]
    /\ skips = << >>
    /\ output = << >>
    /\ pipeEnd = PipeOpen
    /\ testNow \in Times
    /\ testRngReader \in RngReaders
    /\ observed = << >>
    /\ payload = NoPayload
    /\ MainIdle

\* generateUniqueTag() is called; io.ReadFull panics on a source that has
\* fewer than 8 bytes left, and then no tag is returned
GenerateTag ==
    /\ pc = "tagTest"
    /\ Len(testRngReader) >= RandomLen
    /\ generated' = Append(generated, generateUniqueTag(testNow, testRngReader))
    /\ observed' = Append(observed, Observation(testNow, testRngReader))
    /\ testRngReader' = ReadFull(testRngReader)
    /\ UNCHANGED <<in, ctx, pc, authConfig, remoteImage, deferred, digest,
                   registered, err, trace, inflight, stdout, logged, engineVars>>
    /\ UNCHANGED <<scanVars, testNow, payload, mainVars, cancelled>>

\* The clock has another value between two calls
TimePasses ==
    /\ pc = "tagTest"
    /\ generated # << >>
    /\ Len(testRngReader) >= RandomLen
    /\ observed[Len(observed)].now = testNow
    /\ \E t \in Times \ {testNow} : testNow' = t
    /\ UNCHANGED <<orchVars, logged, engineVars, scanVars, testRngReader,
                   observed, payload, mainVars, cancelled>>

NextTag ==
    \/ GenerateTag
    \/ TimePasses

SpecTag == InitTag /\ [][NextTag]_vars

\* scanStatuses with a reader that keeps reading: the Go scheduler runs
\* every goroutine that can run, so io.Copy takes a message that is in the
\* pipe, reads the end of a closed pipe, and the Write of the goroutine
\* returns once its message was taken. When the input ends is up to the
\* upstream: no fairness on ProducerDecode and ProducerEnd.
LiveScan ==
    /\ SpecScan
    /\ WF_vars(CopyRead)
    /\ WF_vars(CopyEOF)
    /\ WF_vars(ProducerWritten)

\* ------------------------------------------------------------------------
\* plugin.Main from parseInput to the operation switch of invokeOperation
\* ------------------------------------------------------------------------

\* s is one or more decimal digits
IsDigits(s) ==
    Len(s) >= 1 /\ \A i \in 1..Len(s) : Contains(DecimalDigits, CharAt(s, i))

\* The digits d without their leading zeros, down to one digit
RECURSIVE StripZeros(_)
StripZeros(d) ==
    IF Len(d) > 1 /\ CharAt(d, 1) = "0" THEN StripZeros(SubSeq(d, 2, Len(d))) ELSE d

\* The value of the decimal digit c
DigitValue(c) == CHOOSE k \in 0..9 : CharAt(DecimalDigits, k + 1) = c

\* For digit strings of one length: a writes a number no greater than b
RECURSIVE DigitsLE(_, _)
DigitsLE(a, b) ==
    IF Len(a) = 0 THEN TRUE
    ELSE IF CharAt(a, 1) # CharAt(b, 1)
    THEN DigitValue(CharAt(a, 1)) < DigitValue(CharAt(b, 1))
    ELSE DigitsLE(SubSeq(a, 2, Len(a)), SubSeq(b, 2, Len(b)))

\* The digits d, without leading zeros, write a number no greater than the
\* one max writes
AtMost(d, max) == Len(d) < Len(max) \/ (Len(d) = Len(max) /\ DigitsLE(d, max))

\* strconv.Atoi(s) with a 64-bit int: an optional sign and decimal digits,
\* within -2^63 .. 2^63 - 1. The number is kept as its sign and its digits
\* without leading zeros.
Atoi(s) ==
    LET sign == IF Len(s) >= 1 /\ (CharAt(s, 1) = "+" \/ CharAt(s, 1) = "-")
                THEN CharAt(s, 1) ELSE ""
        d == SubSeq(s, Len(sign) + 1, Len(s))
        ok == /\ IsDigits(d)
              /\ AtMost(StripZeros(d), IF sign = "-" THEN "9223372036854775808"
                                       ELSE "9223372036854775807")
    IN  IF ok
        THEN [err |-> nil, negative |-> (sign = "-" /\ StripZeros(d) # "0"),
              digits |-> StripZeros(d)]
        ELSE [err |-> errorsNew("strconv.Atoi: parsing \"" \o s \o "\""),
              negative |-> FALSE, digits |-> "0"]

\* InputVersionInvalid of a parseInput that has no check of the sign
InputVersionInvalid_anySign(a) == a.err # nil

\* The test parseInput makes on what strconv.Atoi returned for the
\* inputVersion: err != nil || ver < 0
InputVersionInvalid(a) == a.err # nil \/ a.negative

\* parseInput(r) for a reader that holds the envelope e: the JSON decoding
\* fails when e is not JSON or its inputVersion is not a string; a missing
\* inputVersion is the empty string
parseInput(e) ==
    IF e.kind # "object"
    THEN [in |-> NoPluginInput,
          err |-> errorsNew("unable to unmarshal JSON input: " \o e.kind)]
    ELSE IF InputVersionInvalid(Atoi(e.inputVersion))
    THEN [in |-> NoPluginInput,
          err |-> errorsNew("invalid inputVersion: it must contain a non-negative number")]
    ELSE [in |-> [InputVersion |-> e.inputVersion, Operation |-> e.operation],
          err |-> nil]

\* The inputVersion texts of the envelopes
VersionTexts ==
    { "", "v1", "bogus", "55", "0", "1", "007", "-1", "-55", "-0", "+1", "1.5",
      " 1", "1 ", "0x10", "1_000", "-", "+", "5-", "9223372036854775807",
      "9223372036854775808", "99999999999999999999", "-9223372036854775808" }

\* The plugin inputs: text that is not JSON, an object whose inputVersion is
\* a number, and objects with an inputVersion text and an operation
Envelopes ==
    { [kind |-> k, inputVersion |-> "", operation |-> ""] :
         k \in {"invalid character", "cannot unmarshal number into Go struct field"} }
    \cup { [kind |-> "object", inputVersion |-> v, operation |-> op] :
              v \in VersionTexts,
              op \in {"PushContainerImage", "PullContainerImage", ""} }

InitInput ==
    /\ in = NoInput
    /\ ctx \in Contexts
    /\ cancelled = {}
    /\ pc = "parseInput"
    /\ authConfig = NoAuth
    /\ remoteImage = [AuthConfig |-> NoAuth, Tag |-> ""]
    /\ generated = << >>
    /\ deferred = << >>
    /\ digest = ""
    /\ registered = [Digest |-> "", Image |-> ""]
    /\ err = nil
    /\ trace = << >>
    /\ inflight = {}
    /\ stdout = << >>
    /\ logged = << >>
    /\ epc = "idle"
    /\ gotImage = ""
    /\ imagePushErr = nil
    /\ input = << >>
    /\ inputEnd = ""
    /\ inputClosed = FALSE
    /\ ppc = "none"
    /\ pipe = NoMessage
    /\ digestFromStatus = ""
    /\ digestFromAux = ""
    /\ stderr = << >>
    /\ pushed = [digest |-> "", err |-> nil]
    /\ skips = << >>
    /\ output = << >>
    /\ pipeEnd = PipeOpen
    /\ \E src \in TagSources :
          /\ testNow = src.now
          /\ testRngReader = src.rng
    /\ observed = << >>
    /\ payload = NoPayload
    /\ osArgs = << >>
    /\ pluginCalls = << >>
    /\ fatal = ""
    /\ envelope \in Envelopes
    /\ parsed = [in |-> NoPluginInput, err |-> nil]
    /\ inUse = ""
    /\ metadata = [err |-> nil, Metadata |-> << >>]
    /\ debugLogged = << >>

\* plugin.Main calls parseInput: on an error log.Fatalf ends the process
ParseInput ==
    /\ pc = "parseInput"
    /\ parsed' = parseInput(envelope)
    /\ IF parsed'.err # nil
       THEN /\ fatal' = "invalid plugin input: " \o ErrorText(parsed'.err)
            /\ pc' = "exit"
       ELSE /\ pc' = "invokeOperation"
            /\ UNCHANGED fatal
    /\ UNCHANGED <<in, ctx, authConfig, remoteImage, generated, deferred, digest,
                   registered, err, trace, inflight, stdout, logged, engineVars>>
    /\ UNCHANGED <<scanVars, tagVars, payload, cancelled, osArgs, pluginCalls, envelope,
                   inUse, metadata, debugLogged>>

\* invokeOperation switches on the operation: an operation it does not
\* know is an error, with which log.Fatal ends the process
SelectOperation ==
    /\ pc = "invokeOperation"
    /\ IF parsed.in.Operation = "PushContainerImage"
       THEN /\ pc' = "awsConfig"
            /\ UNCHANGED <<err, fatal>>
       ELSE /\ err' = errorsNew("unknown plugin operation: \""
                                    \o parsed.in.Operation \o "\"")
            /\ fatal' = ErrorText(err')
            /\ pc' = "exit"
    /\ UNCHANGED <<in, ctx, authConfig, remoteImage, generated, deferred, digest,
                   registered, trace, inflight, stdout, logged, engineVars>>
    /\ UNCHANGED <<scanVars, tagVars, payload, cancelled, osArgs, pluginCalls, envelope,
                   parsed, inUse, metadata, debugLogged>>

NextInput ==
    \/ ParseInput
    \/ SelectOperation

SpecInput == InitInput /\ [][NextInput]_vars

\* ------------------------------------------------------------------------
\* main, with pluginMain set as in TestMainCallsPluginMain
\* ------------------------------------------------------------------------

\* internal.Version as fmt.Println prints it
Version == "v1.0.7-fix95fix100"

\* pluginPattern without its anchors
pluginPattern_unanchored(s) == Contains(s, "-plugin")

\* pluginPattern.MatchString(s) for ^--?plugin$
pluginPattern(s) == s = "-plugin" \/ s = "--plugin"

\* getverPattern.MatchString(s) for ^--?version$
getverPattern(s) == s = "-version" \/ s = "--version"

\* The values of os.Args; the operating system gives a program its name
ArgLists ==
    { <<"program">>,
      <<"program", "-plugin", "--foo", "55">>,
      <<"program", "--plugin", "--bar", "42">>,
      <<"lightsailctl", "--plugin">>,
      <<"program", "-version">>,
      <<"lightsailctl", "--version", "-plugin">>,
      <<"program", "---plugin">>,
      <<"program", "plugin">>,
      <<"program", "-plugin2">>,
      <<"program", "x-plugin">>,
      <<"program", "--input", "-plugin">>,
      <<"program", "-Plugin">>,
      <<"program", "">>,
      <<"program", "-versions">> }

\* How many times main is called in one process
MaxMainCalls == 2

InitMain ==
    /\ in = NoInput
    /\ ctx \in Contexts
    /\ cancelled = {}
    /\ pc = "main"
    /\ authConfig = NoAuth
    /\ remoteImage = [AuthConfig |-> NoAuth, Tag |-> ""]
    /\ generated = << >>
    /\ deferred = << >>
    /\ digest = ""
    /\ registered = [Digest |-> "", Image |-> ""]
    /\ err = nil
    /\ trace = << >>
    /\ inflight = {}
    /\ stdout = << >>
    /\ logged = << >>
    /\ epc = "idle"
    /\ gotImage = ""
    /\ imagePushErr = nil
    /\ input = << >>
    /\ inputEnd = ""
    /\ inputClosed = FALSE
    /\ ppc = "none"
    /\ pipe = NoMessage
    /\ digestFromStatus = ""
    /\ digestFromAux = ""
    /\ stderr = << >>
    /\ pushed = [digest |-> "", err |-> nil]
    /\ skips = << >>
    /\ output = << >>
    /\ pipeEnd = PipeOpen
    /\ \E src \in TagSources :
          /\ testNow = src.now
          /\ testRngReader = src.rng
    /\ observed = << >>
    /\ payload = NoPayload
    /\ osArgs \in ArgLists
    /\ pluginCalls = << >>
    /\ fatal = ""
    /\ envelope = NoEnvelope
    /\ parsed = [in |-> NoPluginInput, err |-> nil]
    /\ inUse = ""
    /\ metadata = [err |-> nil, Metadata |-> << >>]
    /\ debugLogged = << >>

\* main() runs: it calls pluginMain, prints the version, or ends the
\* process with log.Fatalf
MainRuns ==
    /\ pc = "main"
    /\ CASE Len(osArgs) > 1 /\ pluginPattern(osArgs[2]) ->
              /\ pluginCalls' = Append(pluginCalls,
                                       [progname |-> osArgs[1] \o " " \o osArgs[2],
                                        args |-> SubSeq(osArgs, 3, Len(osArgs))])
              /\ pc' = "mainReturned"
              /\ UNCHANGED <<stdout, fatal>>
         [] Len(osArgs) > 1 /\ ~pluginPattern(osArgs[2]) /\ getverPattern(osArgs[2]) ->
              /\ stdout' = Append(stdout, Version)
              /\ pc' = "mainReturned"
              /\ UNCHANGED <<pluginCalls, fatal>>
         [] OTHER ->
              /\ fatal' = osArgs[1] \o " can't be used directly, it is meant to be invoked by AWS CLI"
              /\ pc' = "exit"
              /\ UNCHANGED <<pluginCalls, stdout>>
    /\ UNCHANGED <<in, ctx, authConfig, remoteImage, generated, deferred, digest,
                   registered, err, trace, inflight, logged, engineVars>>
    /\ UNCHANGED <<scanVars, tagVars, payload, cancelled, osArgs, envelope, parsed, inUse,
                   metadata, debugLogged>>

\* os.Args is set before main is called again
SetArgs ==
    /\ pc = "mainReturned"
    /\ Len(pluginCalls) + Len(stdout) < MaxMainCalls
    /\ osArgs' \in ArgLists
    /\ pc' = "main"
    /\ UNCHANGED <<in, ctx, authConfig, remoteImage, generated, deferred, digest,
                   registered, err, trace, inflight, stdout, logged, engineVars>>
    /\ UNCHANGED <<scanVars, tagVars, payload, cancelled, pluginCalls, fatal, envelope, parsed,
                   inUse, metadata, debugLogged>>

NextMain ==
    \/ MainRuns
    \/ SetArgs

SpecMain == InitMain /\ [][NextMain]_vars

\* ------------------------------------------------------------------------
\* Semantic versions, as golang.org/x/mod/semver reads and orders them
\* ------------------------------------------------------------------------

\* The characters of a version identifier, in the order of their bytes
IdentChars == "-0123456789ABCDEFGHIJKLMNOPQRSTUVWXYZabcdefghijklmnopqrstuvwxyz"

\* The place of the character c among the bytes (0 for any other character)
ByteRank(c) ==
    IF Contains(IdentChars, c)
    THEN CHOOSE i \in 1..Len(IdentChars) : CharAt(IdentChars, i) = c
    ELSE 0

\* x < y for two strings, as Go compares them
RECURSIVE StringLess(_, _)
StringLess(x, y) ==
    IF y = "" THEN FALSE
    ELSE IF x = "" THEN TRUE
    ELSE IF CharAt(x, 1) # CharAt(y, 1)
         THEN ByteRank(CharAt(x, 1)) < ByteRank(CharAt(y, 1))
         ELSE StringLess(SubSeq(x, 2, Len(x)), SubSeq(y, 2, Len(y)))

\* How many characters at the start of s are among chars
RECURSIVE Span(_, _)
Span(s, chars) ==
    IF s = "" \/ ~Contains(chars, CharAt(s, 1))
    THEN 0
    ELSE 1 + Span(SubSeq(s, 2, Len(s)), chars)

\* The identifiers of s, which dots separate
RECURSIVE Idents(_)
Idents(s) ==
    LET n == Span(s, IdentChars)
    IN  IF n = Len(s)
        THEN << s >>
        ELSE << SubSeq(s, 1, n) >> \o Idents(SubSeq(s, n + 2, Len(s)))

\* parseInt: the decimal number at the start of v, without leading zeros
semverParseInt(v) ==
    LET n == Span(v, DecimalDigits)
    IN  IF n = 0 \/ (CharAt(v, 1) = "0" /\ n # 1)
        THEN [ok |-> FALSE, t |-> "", rest |-> ""]
        ELSE [ok |-> TRUE, t |-> SubSeq(v, 1, n), rest |-> SubSeq(v, n + 1, Len(v))]

\* isBadNum: all digits, more than one, and the first one is 0
isBadNum(v) == Span(v, DecimalDigits) = Len(v) /\ Len(v) > 1 /\ CharAt(v, 1) = "0"

\* parsePrerelease (numbers = TRUE) and parseBuild (numbers = FALSE): the
\* mark, then identifiers which dots separate, none of them empty and, in a
\* pre-release, none of them a number with leading zeros
parseIdents(v, mark, numbers) ==
    LET n == IF v = "" THEN 0 ELSE Span(SubSeq(v, 2, Len(v)), IdentChars \o ".")
        ids == Idents(SubSeq(v, 2, n + 1))
        rest == SubSeq(v, n + 2, Len(v))
    IN  IF \/ v = ""
           \/ CharAt(v, 1) # mark
           \/ (rest # "" /\ ~(numbers /\ CharAt(rest, 1) = "+"))
           \/ \E i \in 1..Len(ids) : ids[i] = "" \/ (numbers /\ isBadNum(ids[i]))
        THEN [ok |-> FALSE, t |-> "", rest |-> ""]
        ELSE [ok |-> TRUE, t |-> SubSeq(v, 1, n + 1), rest |-> rest]

\* What parse returns for a text that is no version
semverBad ==
    [ok |-> FALSE, major |-> "", minor |-> "", patch |-> "", short |-> "",
     prerelease |-> "", build |-> "", rest |-> ""]

\* parse goes on after parseInt, parsePrerelease or parseBuild returned n:
\* it fails, or keeps the text as the member field
semverTake(p, field, n) ==
    IF ~n.ok THEN semverBad ELSE [p EXCEPT ![field] = n.t, !.rest = n.rest]

\* parse reads the number field after the separator sep; where the text may
\* end before it the version is a shorthand, to which short is to be added
semverNumber(p, sep, field, short) ==
    IF ~p.ok \/ p.short # "" THEN p
    ELSE IF p.rest = ""
    THEN IF short = "" THEN semverBad ELSE [p EXCEPT !.short = short]
    ELSE IF CharAt(p.rest, 1) # sep THEN semverBad
    ELSE semverTake(p, field, semverParseInt(SubSeq(p.rest, 2, Len(p.rest))))

\* parse reads the pre-release or the build, if its mark comes next
semverTail(p, mark, field, numbers) ==
    IF ~p.ok \/ p.rest = "" \/ CharAt(p.rest, 1) # mark THEN p
    ELSE semverTake(p, field, parseIdents(p.rest, mark, numbers))

\* parse fails when text is left over
semverEnd(p) == IF p.ok /\ p.rest = "" THEN p ELSE semverBad

\* parse: vMAJOR[.MINOR[.PATCH[-PRERELEASE][+BUILD]]]
semverParse(v) ==
    semverEnd(
      semverTail(
        semverTail(
          semverNumber(
            semverNumber(
              semverNumber([semverBad EXCEPT !.ok = TRUE, !.minor = "0",
                                             !.patch = "0", !.rest = v],
                           "v", "major", ""),
              ".", "minor", ".0.0"),
            ".", "patch", ".0"),
          "-", "prerelease", TRUE),
        "+", "build", FALSE))

\* semver.Canonical(v)
Canonical(v) ==
    LET p == semverParse(v)
    IN  IF ~p.ok THEN ""
        ELSE IF p.build # "" THEN SubSeq(v, 1, Len(v) - Len(p.build))
        ELSE IF p.short # "" THEN v \o p.short
        ELSE v

\* compareInt(x, y) < 0, for decimal texts without leading zeros
compareIntLess(x, y) ==
    x # y /\ (Len(x) < Len(y) \/ (Len(x) = Len(y) /\ StringLess(x, y)))

\* comparePrerelease(x, y) < 0 from the i-th identifier on, the earlier ones
\* being equal
RECURSIVE identsLess(_, _, _)
identsLess(xs, ys, i) ==
    IF i > Len(xs) \/ i > Len(ys)
    THEN i > Len(xs)
    ELSE IF xs[i] = ys[i]
    THEN identsLess(xs, ys, i + 1)
    ELSE LET ix == Span(xs[i], DecimalDigits) = Len(xs[i])
             iy == Span(ys[i], DecimalDigits) = Len(ys[i])
         IN  IF ix # iy THEN ix
             ELSE IF ix /\ Len(xs[i]) # Len(ys[i]) THEN Len(xs[i]) < Len(ys[i])
             ELSE StringLess(xs[i], ys[i])

\* comparePrerelease(x, y) < 0: a version with a pre-release is below the
\* one without
comparePrereleaseLess(x, y) ==
    IF x = y \/ x = "" THEN FALSE
    ELSE IF y = "" THEN TRUE
    ELSE identsLess(Idents(SubSeq(x, 2, Len(x))), Idents(SubSeq(y, 2, Len(y))), 1)

\* semver.Compare(v, w) < 0: a text that is no version is below every version
CompareLess_noPrerelease(v, w) ==
    LET pv == semverParse(v)
        pw == semverParse(w)
    IN  IF ~pv.ok \/ ~pw.ok THEN ~pv.ok /\ pw.ok
        ELSE IF pv.major # pw.major THEN compareIntLess(pv.major, pw.major)
        ELSE IF pv.minor # pw.minor THEN compareIntLess(pv.minor, pw.minor)
        ELSE compareIntLess(pv.patch, pw.patch)

CompareLess(v, w) ==
    LET pv == semverParse(v)
        pw == semverParse(w)
    IN  IF ~pv.ok \/ ~pw.ok THEN ~pv.ok /\ pw.ok
        ELSE IF pv.major # pw.major THEN compareIntLess(pv.major, pw.major)
        ELSE IF pv.minor # pw.minor THEN compareIntLess(pv.minor, pw.minor)
        ELSE IF pv.patch # pw.patch THEN compareIntLess(pv.patch, pw.patch)
        ELSE comparePrereleaseLess(pv.prerelease, pw.prerelease)

\* Semver.String: the canonical form, a missing v prefix added
SemverString(v) ==
    IF v = "" \/ CharAt(v, 1) = "v" THEN Canonical(v) ELSE Canonical("v" \o v)

\* Semver.IsValid
IsValid(v) == semverParse(SemverString(v)).ok

\* Semver.Less
Less(v, other) == CompareLess(SemverString(v), SemverString(other))

\* ------------------------------------------------------------------------
\* CheckForUpdates, as invokeOperation calls it before it parses the payload
\* ------------------------------------------------------------------------

\* getLatestLightsailctlVersion(ctx, g), for the answer md of
\* GetContainerAPIMetadataWithContext
getLatestLightsailctlVersion(md) ==
    LET named == { i \in 1..Len(md.Metadata) :
                     md.Metadata[i].name = "lightsailctlVersion" }
        rawSemver == IF named = {} THEN ""
                     ELSE md.Metadata[CHOOSE i \in named : \A j \in named : j <= i].value
    IN  IF md.err # nil
        THEN [ver |-> "",
              err |-> errorsNew("could not get latest lightsailctl version: "
                                    \o ErrorText(md.err))]
        ELSE IF rawSemver = ""
        THEN [ver |-> "",
              err |-> errorsNew("latest lightsailctl version was not in GetContainerAPIMetadata response")]
        ELSE IF ~IsValid(rawSemver)
        THEN [ver |-> "",
              err |-> errorsNew("latest lightsailctl version is not a semver: \""
                                    \o rawSemver \o "\"")]
        ELSE [ver |-> rawSemver, err |-> nil]

\* The warning log.Printf writes
UpdateWarning(using, available) ==
    "WARNING: You are using lightsailctl " \o SemverString(using) \o ", but "
        \o SemverString(available) \o " is available.\n"
        \o "To download, visit https://lightsail.aws.amazon.com/ls/docs/en_us/articles/amazon-lightsail-install-software"

\* The versions a build may carry
VersionsInUse == { Version, "v1.4.33", "1.4.33", "v2.7.3-beta", "v1.4" }

\* The values the service may give for lightsailctlVersion
LatestTexts ==
    { "", "bogus", "1.4.33", "v1.4.33", "v1.6.11", "v2.7.3", "v2.7.3-beta",
      "1.4.0-beta", "1.4.1", "v1.10.0", "v1.9.0", "v1.0.7", "v1.0.7-fix95fix100",
      "v1.0.7-fix95fix99", "v2.7.3-beta.2", "v2.7.3-beta.11", "v2.7.3-beta.x",
      "v2.7.3-alpha", "v2.7.3-1", "v1.4.33+build5", "v1.4", "v2", "v01.4.33",
      "v1.4.33-", "v1.4.33-01", "V1.6.11", "v1.4.33.1", "v1.4-beta" }

\* What GetContainerAPIMetadataWithContext may answer
MetadataOutcomes ==
    { [err |-> errorsNew(t), Metadata |-> << >>] :
        t \in { "very bad error occurred", "network timeout error" } }
    \cup { [err |-> nil, Metadata |-> << >>],
           [err |-> nil, Metadata |-> << [name |-> "other", value |-> "v9.9.9"] >>],
           [err |-> nil,
            Metadata |-> << [name |-> "other", value |-> "v9.9.9"],
                            [name |-> "lightsailctlVersion", value |-> "v1.6.11"],
                            [name |-> "another", value |-> "v0.0.1"] >>] }
    \cup { [err |-> nil,
            Metadata |-> << [name |-> "lightsailctlVersion", value |-> t] >>] :
           t \in LatestTexts }

\* The payloads of the runs that check for updates
UpdatePayloads ==
    { p \in Payloads : ~p.ok \/ DOMAIN p.obj = {"service", "image", "label"} }

InitUpdate ==
    /\ in = NoInput
    /\ ctx \in Contexts
    /\ cancelled = {}
    /\ pc = "checkForUpdates"
    /\ authConfig = NoAuth
    /\ remoteImage = [AuthConfig |-> NoAuth, Tag |-> ""]
    /\ generated = << >>
    /\ deferred = << >>
    /\ digest = ""
    /\ registered = [Digest |-> "", Image |-> ""]
    /\ err = nil
    /\ trace = << >>
    /\ inflight = {}
    /\ stdout = << >>
    /\ logged = << >>
    /\ epc = "idle"
    /\ gotImage = ""
    /\ imagePushErr = nil
    /\ input = << >>
    /\ inputEnd = ""
    /\ inputClosed = FALSE
    /\ ppc = "none"
    /\ pipe = NoMessage
    /\ digestFromStatus = ""
    /\ digestFromAux = ""
    /\ stderr = << >>
    /\ pushed = [digest |-> "", err |-> nil]
    /\ skips = << >>
    /\ output = << >>
    /\ pipeEnd = PipeOpen
    /\ \E src \in TagSources :
          /\ testNow = src.now
          /\ testRngReader = src.rng
    /\ observed = << >>
    /\ payload \in UpdatePayloads
    /\ osArgs = << >>
    /\ pluginCalls = << >>
    /\ fatal = ""
    /\ envelope = NoEnvelope
    /\ parsed = [in |-> NoPluginInput, err |-> nil]
    /\ inUse \in VersionsInUse
    /\ metadata \in MetadataOutcomes
    /\ debugLogged = << >>

\* CheckForUpdates(ctx, debugLog, ls, inUse): invokeOperation goes on to
\* parse the payload whatever happens here
CheckForUpdates ==
    /\ pc = "checkForUpdates"
    /\ LET r == getLatestLightsailctlVersion(metadata)
       IN  IF r.err # nil
           THEN /\ debugLogged' = Append(debugLogged, ErrorText(r.err))
                /\ UNCHANGED logged
           ELSE /\ logged' = IF Less(inUse, r.ver)
                             THEN Append(logged, UpdateWarning(inUse, r.ver))
                             ELSE logged
                /\ UNCHANGED debugLogged
    /\ pc' = "parsePayload"
    /\ UNCHANGED <<in, ctx, authConfig, remoteImage, generated, deferred, digest,
                   registered, err, trace, inflight, stdout, engineVars>>
    /\ UNCHANGED <<scanVars, tagVars, payload, cancelled, osArgs, pluginCalls, fatal, envelope,
                   parsed, inUse, metadata>>

NextUpdate ==
    \/ CheckForUpdates
    \/ ParsePayload
    \/ NewDockerEngine

SpecUpdate == InitUpdate /\ [][NextUpdate]_vars

\* ------------------------------------------------------------------------
\* Reading the trace of capability calls
\* ------------------------------------------------------------------------

IsCallOf(e, op) == e.ev = "call" /\ e.op = op
IsReturnOf(e, op) == e.ev = "return" /\ e.op = op

\* The calls / the returns of capability op so far, in order
CallsOf(op) == SelectSeq(trace, LAMBDA e : IsCallOf(e, op))
ReturnsOf(op) == SelectSeq(trace, LAMBDA e : IsReturnOf(e, op))

\* Capability op has returned without / with an error
Succeeded(op) == \E i \in 1..Len(trace) : IsReturnOf(trace[i], op) /\ trace[i].err = nil
Failed(op) == \E i \in 1..Len(trace) : IsReturnOf(trace[i], op) /\ trace[i].err # nil

\* The error capability op returned
ErrorOf(op) == ReturnsOf(op)[1].err

NeverCalled(op) == CallsOf(op) = << >>

\* UntagImage was called exactly once, with the reference TagImage was
\* given as its target
UntaggedOnceAsTagged ==
    /\ Len(CallsOf("untag")) = 1
    /\ Len(CallsOf("tag")) = 1
    /\ CallsOf("untag")[1].args[2] = CallsOf("tag")[1].args[3]

\* ------------------------------------------------------------------------
\* Properties of cs.PushImage
\* ------------------------------------------------------------------------

\* C1: in a run in which TagImage succeeded, UntagImage is never called
\* twice nor with another reference than the one that was tagged, and once
\* PushImage has returned it has been called exactly once with that
\* reference, whatever push and register did.
C1_UntagOnceWithTaggedRef ==
    /\ Len(CallsOf("untag")) <= 1
    /\ \A i \in 1..Len(CallsOf("untag")) :
          CallsOf("untag")[i].args[2] = CallsOf("tag")[1].args[3]
    /\ (pc = "done" /\ Succeeded("tag")) => UntaggedOnceAsTagged

C1_Witness ==
    /\ pc = "done"
    /\ Succeeded("tag")
    /\ Failed("push")
    /\ UntaggedOnceAsTagged
    /\ CallsOf("untag")[1].args[2] = Ref(remoteImage)

\* C2: once TagImage has failed, PushImage has returned the error of
\* TagImage and push, register and untag have not been called.
C2_TagFailureStopsRun ==
    Failed("tag") =>
        /\ pc = "done"
        /\ err = ErrorOf("tag")
        /\ NeverCalled("push")
        /\ NeverCalled("register")
        /\ NeverCalled("untag")

C2_Witness == Failed("tag") /\ pc = "done" /\ err = TagErr

\* C3: when imgo.PushImage failed with an error that is not a platform
\* error, RegisterContainerImage is never called, and once PushImage has
\* returned it returned that very error and UntagImage has been called.
C3_PushFailure ==
    (Failed("push") /\ ErrorOf("push").kind # "platformError") =>
        /\ NeverCalled("register")
        /\ pc = "done" => (err = ErrorOf("push") /\ UntaggedOnceAsTagged)

C3_Witness ==
    /\ pc = "done"
    /\ Failed("push")
    /\ err = errorsNew("EOF")
    /\ Len(CallsOf("untag")) = 1

\* C4: when login, tag, push and register all succeeded, PushImage returns
\* nil and RegisterContainerImage was called exactly once, with the service
\* name and the label of the request and the digest imgo.PushImage returned.
C4_RegisterCalledWithPushedDigest ==
    (pc = "done" /\ Succeeded("login") /\ Succeeded("tag")
        /\ Succeeded("push") /\ Succeeded("register")) =>
        /\ err = nil
        /\ Len(CallsOf("register")) = 1
        /\ CallsOf("register")[1].args[2] = in.Service
        /\ CallsOf("register")[1].args[3] = in.Label
        /\ CallsOf("register")[1].args[4] = pushed.digest

C4_Witness ==
    /\ pc = "done"
    /\ Succeeded("register")
    /\ err = nil
    /\ pushed.digest = Digest1
    /\ CallsOf("register")[1].args = <<ctx, "doge", "www", Digest1>>

\* C5: when UntagImage failed, what PushImage returns is nil if the
\* registration succeeded and the error of push or of register otherwise;
\* the error of UntagImage is logged and is not what PushImage returns.
C5_UntagFailureOnlyLogged ==
    (pc = "done" /\ Failed("untag")) =>
        /\ Succeeded("register") => err = nil
        /\ Failed("register") => err = ErrorOf("register")
        /\ Failed("push") => err = ErrorOf("push")
        /\ err # ErrorOf("untag")
        /\ \E i \in 1..Len(logged) : logged[i] = ErrorText(ErrorOf("untag"))

C5_Witness == pc = "done" /\ Failed("untag") /\ Succeeded("register") /\ err = nil

\* C6: once the registry login has failed, PushImage has returned the
\* error of the login call as it is and tag, push, register and untag have
\* not been called.
C6_LoginFailureVerbatim ==
    Failed("login") =>
        /\ pc = "done"
        /\ err = ErrorOf("login")
        /\ NeverCalled("tag")
        /\ NeverCalled("push")
        /\ NeverCalled("register")
        /\ NeverCalled("untag")

C6_Witness == Failed("login") /\ pc = "done" /\ err = CreateLoginErr

\* C7: when RegisterContainerImage failed, nothing is printed, and once
\* PushImage has returned it returned the registration error and UntagImage
\* has been called once with the tagged reference.
C7_RegisterFailure ==
    Failed("register") =>
        /\ stdout = << >>
        /\ pc = "done" => (err = ErrorOf("register") /\ UntaggedOnceAsTagged)

C7_Witness ==
    /\ pc = "done"
    /\ Failed("register")
    /\ err = RegisterErr
    /\ Len(CallsOf("untag")) = 1

\* The order of the capabilities in a run
Order == <<"login", "tag", "push", "register", "untag">>

Rank(op) == CHOOSE k \in 1..Len(Order) : Order[k] = op

\* C8: the capability calls of a run are made one after another in the
\* order login, tag, push, register, untag: a call other than untag starts
\* right after the call before it in that order returned without error,
\* untag starts right after push or register returned, every return
\* answers the call made last, and never are two calls in progress.
C8_SequentialOrder ==
    /\ Cardinality(inflight) <= 1
    /\ \A i \in 1..Len(trace) :
          IF trace[i].ev = "call"
          THEN IF i = 1 THEN trace[i].op = "login"
               ELSE /\ trace[i].op # "login"
                    /\ trace[i - 1].ev = "return"
                    /\ IF trace[i].op = "untag"
                       THEN trace[i - 1].op \in {"push", "register"}
                       ELSE /\ trace[i - 1].op = Order[Rank(trace[i].op) - 1]
                            /\ trace[i - 1].err = nil
          ELSE /\ i > 1
               /\ IsCallOf(trace[i - 1], trace[i].op)

C8_Witness ==
    /\ pc = "done"
    /\ Len(trace) = 10
    /\ [i \in 1..5 |-> trace[2 * i].op] = Order

\* ------------------------------------------------------------------------
\* Properties of DockerEngine.PushImage
\* ------------------------------------------------------------------------

\* The messages scanStatuses forwards of the records decoded so far
Forwarded ==
    SelectSeq([i \in 1..Len(input) |-> JSONMessage(input[i])],
              LAMBDA m : ~Skipped(m, Skips))

\* The forwarded messages that end the rendering with their error
ForwardedErrors ==
    SelectSeq(Forwarded, LAMBDA m : m.Aux = AuxAbsent /\ m.Error # nil)

\* The error the rendering of the forwarded messages ends with, nil if none
FirstStreamError ==
    IF ForwardedErrors = << >> THEN nil ELSE ForwardedErrors[1].Error

\* The text matches 'does not (provide|match) the specified platform
\* (linux/amd64)'
PlatformText(text) ==
    \/ Contains(text, "does not provide the specified platform (linux/amd64)")
    \/ Contains(text, "does not match the specified platform (linux/amd64)")

\* DockerEngine.PushImage returned the platform error that wraps cause, and
\* no digest
ReturnedPlatformError(cause) ==
    /\ pushed.digest = ""
    /\ pushed.err.kind = "platformError"
    /\ pushed.err.wantPlatform = [OS |-> "linux", Architecture |-> "amd64"]
    /\ pushed.err.cause = cause
    /\ ErrorText(pushed.err) = "image does not provide linux/amd64 platform"

\* C9 as stated: when ImagePush failed with a matching text, or some record
\* of the response carries a structured error with a matching message,
\* DockerEngine.PushImage returns the platform error.
C9_AnyRecordWithPlatformError ==
    epc = "returned" =>
        /\ (imagePushErr # nil /\ PlatformText(ErrorText(imagePushErr)))
              => ReturnedPlatformError(imagePushErr)
        /\ \A i \in 1..Len(input) :
              (input[i].errorDetail # nil
                  /\ PlatformText(input[i].errorDetail.Message))
              => ReturnedPlatformError(input[i].errorDetail)

\* C9: when ImagePush failed with an error whose text matches the platform
\* pattern, or the rendering of the filtered stream ended with a structured
\* error whose message matches it (the error of the first forwarded message
\* that has one and no aux), DockerEngine.PushImage returns no digest and a
\* platform error that names linux/amd64 and wraps that error.
C9_PlatformMismatch ==
    epc = "returned" =>
        /\ (imagePushErr # nil /\ PlatformText(ErrorText(imagePushErr)))
              => ReturnedPlatformError(imagePushErr)
        /\ (FirstStreamError # nil /\ PlatformText(FirstStreamError.Message))
              => ReturnedPlatformError(FirstStreamError)

C9_Witness ==
    /\ epc = "returned"
    /\ imagePushErr = nil
    /\ digestFromStatus = Digest1
    /\ FirstStreamError =
          JSONError("... does not provide the specified platform (linux/amd64)")
    /\ ReturnedPlatformError(FirstStreamError)

\* C10: DockerEngine.PushImage returns a platform error only for an error
\* of ImagePush whose text, or an error of the rendering whose message,
\* matches the platform pattern for linux/amd64, and it wraps that error;
\* any other error of ImagePush or of the rendering is returned as it is.
C10_PlatformErrorOnlyOnMatch ==
    epc = "returned" =>
        /\ pushed.err.kind = "platformError" =>
              \/ /\ imagePushErr # nil
                 /\ PlatformText(ErrorText(imagePushErr))
                 /\ pushed.err.cause = imagePushErr
              \/ /\ imagePushErr = nil
                 /\ FirstStreamError # nil
                 /\ PlatformText(FirstStreamError.Message)
                 /\ pushed.err.cause = FirstStreamError
        /\ (imagePushErr # nil /\ ~PlatformText(ErrorText(imagePushErr)))
              => pushed = [digest |-> "", err |-> imagePushErr]
        /\ (FirstStreamError # nil /\ ~PlatformText(FirstStreamError.Message))
              => pushed = [digest |-> "", err |-> FirstStreamError]

C10_Witness ==
    /\ epc = "returned"
    /\ imagePushErr = nil
    /\ FirstStreamError =
          JSONError("does not provide the specified platform (linux/arm64)")
    /\ pushed = [digest |-> "", err |-> FirstStreamError]

\* ------------------------------------------------------------------------
\* Properties of the digest DockerEngine.PushImage returns
\* ------------------------------------------------------------------------

\* DockerEngine.PushImage has returned after ImagePush succeeded and the
\* rendering of the filtered stream ended without an error
DisplayReturnedNil ==
    epc = "returned" /\ imagePushErr = nil /\ FirstStreamError = nil

\* The digests the status texts of the decoded records carry, in order
StatusDigests ==
    LET st == SelectSeq([i \in 1..Len(input) |-> JSONMessage(input[i]).Status],
                        LAMBDA t : Len(digestStatusRE(t)) = 2)
    IN  [i \in 1..Len(st) |-> digestStatusRE(st[i])[2]]

\* The digests the aux payloads of the forwarded messages carry, in order
AuxDigests ==
    LET ms == SelectSeq(Forwarded,
                        LAMBDA m : m.Aux.t = "object" /\ m.Aux.digest # "")
    IN  [i \in 1..Len(ms) |-> ms[i].Aux.digest]

MissingDigestErr ==
    errorsNew("image push response does not contain the image digest")

\* C11: when the rendering of the push response ended without an error and
\* no record carried a digest, neither in its status text nor in its aux
\* payload, DockerEngine.PushImage has returned no digest and the error
\* 'image push response does not contain the image digest'; register is
\* never called in that run, and PushImage returns that error.
C11_MissingDigest ==
    (DisplayReturnedNil /\ StatusDigests = << >> /\ AuxDigests = << >>) =>
        /\ pushed = [digest |-> "", err |-> MissingDigestErr]
        /\ NeverCalled("register")
        /\ pc = "done" => err = MissingDigestErr

C11_Witness ==
    /\ pc = "done"
    /\ DisplayReturnedNil
    /\ Len(input) >= 2
    /\ StatusDigests = << >>
    /\ AuxDigests = << >>
    /\ err = MissingDigestErr
    /\ NeverCalled("register")
    /\ Len(CallsOf("untag")) = 1

\* The elements of the sequence s
Range(s) == { s[i] : i \in 1..Len(s) }

\* C12: when the rendering ended without an error and the stream carried a
\* digest in a status text and a digest in an aux payload, the digest
\* DockerEngine.PushImage returns is one of the status texts and never one
\* that only the aux payloads carried, whichever record came first.
C12_StatusDigestWins ==
    (DisplayReturnedNil /\ StatusDigests # << >> /\ AuxDigests # << >>) =>
        /\ pushed.err = nil
        /\ pushed.digest \in Range(StatusDigests)
        /\ pushed.digest = digestFromStatus

\* The aux payload came first and carried another digest
C12_Witness ==
    /\ DisplayReturnedNil
    /\ Len(input) = 2
    /\ JSONMessage(input[1]).Aux = AuxDigest(Digest2)
    /\ StatusDigests = <<Digest1>>
    /\ AuxDigests = <<Digest2>>
    /\ pushed = [digest |-> Digest1, err |-> nil]

\* ------------------------------------------------------------------------
\* Properties of scanStatuses
\* ------------------------------------------------------------------------

\* The status text contains one of the substrings subs
Suppressed(status, subs) ==
    \E i \in 1..Len(subs) : \E j \in 1..(Len(status) + 1) :
        /\ j + Len(subs[i]) - 1 <= Len(status)
        /\ SubSeq(status, j, j + Len(subs[i]) - 1) = subs[i]

\* The records inp as decoded, without those whose status text contains
\* one of subs, in their order
Kept(inp, subs) ==
    SelectSeq([i \in 1..Len(inp) |-> JSONMessage(inp[i])],
              LAMBDA m : ~Suppressed(m.Status, subs))

\* s is a prefix of t
IsPrefix(s, t) == Len(s) <= Len(t) /\ s = SubSeq(t, 1, Len(s))

\* C13: whatever records were decoded and whatever substrings scanStatuses
\* was told to skip, the messages it has written to the pipe are exactly the
\* decoded records whose status text contains none of the substrings, in
\* their order; the reader has read a prefix of them, and all of them once
\* it has read the end of the pipe.
C13_OutputIsFilteredInput ==
    /\ output = Kept(input, skips)
    /\ IsPrefix(stdout, output)
    /\ epc = "copied" => stdout = Kept(input, skips)

C13_Witness ==
    /\ epc = "copied"
    /\ skips = <<"refers to", "Waiting">>
    /\ Len(input) = 2
    /\ input[1].status = "Waiting"
    /\ Len(stdout) = 1
    /\ stdout = <<JSONMessage(input[2])>>

\* C14: once the rendering has read the end of the pipe, the goroutine of
\* scanStatuses has exited and the digest of a status text is in
\* digestFromStatus; a return of DockerEngine.PushImage while the goroutine
\* may still write digestFromStatus carries an error and no digest, so that
\* digestFromStatus is read only after the goroutine exited; and
\* digestFromStatus never changes after a return that carries a digest.
C14_StatusDigestReadAfterEOF ==
    /\ [](DisplayReturnedNil =>
            /\ ppc = "closed"
            /\ StatusDigests # << >> =>
                  /\ digestFromStatus \in Range(StatusDigests)
                  /\ pushed = [digest |-> digestFromStatus, err |-> nil])
    /\ [][(epc = "display" /\ epc' = "returned" /\ ppc # "closed") =>
            (pushed'.digest = "" /\ pushed'.err # nil)]_vars
    /\ [][(epc = "returned" /\ pushed.err = nil) =>
            digestFromStatus' = digestFromStatus]_vars

\* The digest was in the status text of the last record before the end
C14_Witness ==
    /\ DisplayReturnedNil
    /\ ppc = "closed"
    /\ Len(input) = 2
    /\ StatusDigests = <<Digest1>>
    /\ Len(digestStatusRE(input[2].status)) = 2
    /\ digestFromStatus = Digest1
    /\ pushed = [digest |-> Digest1, err |-> nil]

\* C15: when several records carry a digest, digestFromStatus holds the
\* first digest found in the status texts, and once the whole stream was
\* rendered digestFromAux holds the first digest found in the aux payloads;
\* a later record does not replace them.
C15_FirstDigestReported ==
    /\ StatusDigests # << >> => digestFromStatus = StatusDigests[1]
    /\ (DisplayReturnedNil /\ AuxDigests # << >>) => digestFromAux = AuxDigests[1]

\* C16: when the decoding ended, on a record that is not JSON or at the end
\* of the input, the pipe is closed without an error; the reader never gets
\* an error, and once it has read the end of the pipe it has read every
\* message forwarded before, unchanged; after the decoding ended no record
\* is decoded, forwarded or inspected for a digest.
C16_MalformedEndsQuietly ==
    /\ [](inputEnd \in {"malformed", "EOF"} =>
            /\ ppc = "closed"
            /\ pipeEnd = [closed |-> TRUE, err |-> nil])
    /\ [](epc # "copyFailed")
    /\ [](epc = "copied" =>
            /\ inputEnd \in {"malformed", "EOF"}
            /\ stdout = Kept(input, skips))
    /\ [][inputEnd # "" =>
            /\ input' = input
            /\ output' = output
            /\ digestFromStatus' = digestFromStatus]_vars

\* A record was forwarded and read before the one that is not JSON
C16_Witness ==
    /\ inputEnd = "malformed"
    /\ epc = "copied"
    /\ skips = <<"Waiting", "digest: ">>
    /\ Len(input) = 2
    /\ Len(stdout) = 1
    /\ stdout = Kept(input, skips)
    /\ logged = <<"scanStatuses: invalid character">>

\* C17: under fair scheduling, once the decoding of the input has ended (at
\* its end or on a record that is not JSON) or the goroutine of scanStatuses
\* has exited, the reader that keeps reading eventually reads the end of the
\* pipe.
C17_ReaderSeesEOF ==
    /\ (inputEnd # "") ~> (epc = "copied")
    /\ (ppc = "closed") ~> (epc = "copied")

\* The reader has read two messages and then the end of the pipe
C17_Witness ==
    /\ inputEnd = "EOF"
    /\ ppc = "closed"
    /\ pipeEnd.closed
    /\ epc = "copied"
    /\ Len(stdout) = 2

\* ------------------------------------------------------------------------
\* Properties of invokeOperation
\* ------------------------------------------------------------------------

\* The payload object has a non-empty member name
HasMember(name) == name \in DOMAIN payload.obj /\ payload.obj[name] # ""

\* What the first member that is missing or empty is called, "" if none is
FirstMissing ==
    CASE ~HasMember("service") -> "service name"
      [] HasMember("service") /\ ~HasMember("image") -> "container image"
      [] HasMember("service") /\ HasMember("image") /\ ~HasMember("label")
            -> "container label"
      [] OTHER -> ""

\* cs.PushImage has not started: no capability was called and the Docker
\* Engine adapter is idle
PushImageNotStarted ==
    /\ pc \in {"parsePayload", "done"}
    /\ trace = << >>
    /\ inflight = {}
    /\ epc = "idle"
    /\ generated = << >>

\* C18: for a payload object whose service, image or label member is missing
\* or empty, cs.PushImage is never started, and invokeOperation returns
\* 'unable to parse the input's payload field: push container image: <what>
\* is not specified', where <what> names the first such member in the order
\* service name, container image, container label.
C18_IncompletePayloadRejected ==
    (payload.ok /\ FirstMissing # "") =>
        /\ PushImageNotStarted
        /\ pc = "done" =>
              err = errorsNew("unable to parse the input's payload field: "
                                  \o "push container image: " \o FirstMissing
                                  \o " is not specified")

\* The image is empty and the label is missing: the image is named
C18_Witness ==
    /\ pc = "done"
    /\ payload = [ok |-> TRUE, obj |-> [service |-> "dyservicev3", image |-> ""]]
    /\ PushImageNotStarted
    /\ err = errorsNew("unable to parse the input's payload field: push container image: container image is not specified")

\* ------------------------------------------------------------------------
\* Properties of generateUniqueTag
\* ------------------------------------------------------------------------

\* The characters 0-9 then a-v
TagAlphabet == "0123456789abcdefghijklmnopqrstuv"

\* The place (from 0) of the character c in TagAlphabet, 32 if it has none
TagCharValue(c) ==
    IF \E k \in 0..31 : SubSeq(TagAlphabet, k + 1, k + 1) = c
    THEN CHOOSE k \in 0..31 : SubSeq(TagAlphabet, k + 1, k + 1) = c
    ELSE 32

\* Bit k (from 0) of the 5-bit groups the characters of s stand for
SuffixBit(s, k) ==
    (TagCharValue(SubSeq(s, (k \div 5) + 1, (k \div 5) + 1)) \div Pow2(4 - (k % 5))) % 2

\* Byte i (from 1) of the bits the characters of s stand for
SuffixByte(s, i) ==
    128 * SuffixBit(s, 8 * (i - 1)) + 64 * SuffixBit(s, 8 * (i - 1) + 1)
      + 32 * SuffixBit(s, 8 * (i - 1) + 2) + 16 * SuffixBit(s, 8 * (i - 1) + 3)
      + 8 * SuffixBit(s, 8 * (i - 1) + 4) + 4 * SuffixBit(s, 8 * (i - 1) + 5)
      + 2 * SuffixBit(s, 8 * (i - 1) + 6) + SuffixBit(s, 8 * (i - 1) + 7)

\* The number the decimal digits of s write, -1 when s is empty or has
\* another character
RECURSIVE DecimalValue(_)
DecimalValue(s) ==
    LET last == SubSeq(s, Len(s), Len(s))
        d == TagCharValue(last)
    IN  IF Len(s) = 0 \/ d > 9 THEN -1
        ELSE IF Len(s) = 1 THEN d
        ELSE IF DecimalValue(SubSeq(s, 1, Len(s) - 1)) < 0 THEN -1
        ELSE 10 * DecimalValue(SubSeq(s, 1, Len(s) - 1)) + d

\* The text t writes sec * 10^9 + nsec in decimal, without leading zeros
IsUnixNano(t, sec, nsec) ==
    /\ Len(t) >= 1
    /\ Len(t) > 1 => SubSeq(t, 1, 1) # "0"
    /\ IF Len(t) <= 9
       THEN sec = 0 /\ DecimalValue(t) = nsec
       ELSE /\ DecimalValue(SubSeq(t, 1, Len(t) - 9)) = sec
            /\ DecimalValue(SubSeq(t, Len(t) - 8, Len(t))) = nsec

\* tag is '<UnixNano of now>-<suffix>', where the suffix has 13 characters of
\* TagAlphabet that stand for the 8 bytes and a last bit 0
IsTagOf(tag, now, bytes) ==
    LET suffix == SubSeq(tag, Len(tag) - 12, Len(tag))
    IN  /\ Len(tag) >= 15
        /\ SubSeq(tag, Len(tag) - 13, Len(tag) - 13) = "-"
        /\ IsUnixNano(SubSeq(tag, 1, Len(tag) - 14), now.sec, now.nsec)
        /\ Len(suffix) = 13
        /\ \A j \in 1..13 : TagCharValue(SubSeq(suffix, j, j)) < 32
        /\ Len(bytes) = 8
        /\ \A i \in 1..8 : SuffixByte(suffix, i) = bytes[i]
        /\ SuffixBit(suffix, 64) = 0

\* C19: every tag generateUniqueTag returned is '<UnixNano>-<suffix>' for
\* the clock value and the 8 bytes that call read, the suffix being the 13
\* characters of the unpadded base-32 encoding of the bytes over 0-9 then
\* a-v; calls that read the same clock value and bytes returned the same
\* tag; and the call that read 1593224653252075123 and 'abcdefgh' returned
\* '1593224653252075123-c5h66p35cpjmg'.
C19_TagOfClockAndBytes ==
    /\ Len(observed) = Len(generated)
    /\ \A i \in 1..Len(generated) :
          /\ IsTagOf(generated[i], observed[i].now, observed[i].bytes)
          /\ \A j \in 1..Len(generated) :
                observed[i] = observed[j] => generated[i] = generated[j]
          /\ (/\ observed[i].now = [sec |-> 1593224653, nsec |-> 252075123]
              /\ observed[i].bytes = <<97, 98, 99, 100, 101, 102, 103, 104>>)
                => generated[i] = "1593224653252075123-c5h66p35cpjmg"

\* Two calls read the same clock value and the same bytes
C19_Witness ==
    /\ pc = "tagTest"
    /\ Len(generated) = 2
    /\ observed[1] = observed[2]
    /\ observed[1].bytes = <<97, 98, 99, 100, 101, 102, 103, 104>>
    /\ generated = << "1593224653252075123-c5h66p35cpjmg",
                      "1593224653252075123-c5h66p35cpjmg" >>

\* ------------------------------------------------------------------------
\* Properties of the reference cs.PushImage works with
\* ------------------------------------------------------------------------

\* The registry the login call returned, '/sr', ':' and the tag that was
\* generated
ExpectedRef == ReturnsOf("login")[1].args[3] \o "/sr" \o ":" \o generated[1]

\* C20: in one run generateUniqueTag is called at most once, and exactly
\* once when TagImage is called; the target of TagImage, the remote image of
\* the push call (and the reference ImagePush gets), and the image of
\* UntagImage are all the registry returned by login followed by '/sr', ':'
\* and that tag.
C20_OneTagOneReference ==
    /\ Len(generated) <= 1
    /\ Len(generated) = Len(CallsOf("tag"))
    /\ Len(observed) = Len(generated)
    /\ \A i \in 1..Len(CallsOf("tag")) : CallsOf("tag")[i].args[3] = ExpectedRef
    /\ \A i \in 1..Len(CallsOf("push")) :
          /\ CallsOf("push")[i].args[2].AuthConfig.ServerAddress \o ":"
                \o CallsOf("push")[i].args[2].Tag = ExpectedRef
          /\ gotImage = ExpectedRef
    /\ \A i \in 1..Len(CallsOf("untag")) : CallsOf("untag")[i].args[2] = ExpectedRef

C20_Witness ==
    /\ pc = "done"
    /\ Len(generated) = 1
    /\ Succeeded("push")
    /\ Len(CallsOf("untag")) = 1
    /\ ExpectedRef = "123456789012.dkr.ecr.so-fake-2.amazonaws.com/sr:1593224653252075123-c5h66p35cpjmg"
    /\ CallsOf("tag")[1].args[3] = ExpectedRef
    /\ gotImage = ExpectedRef
    /\ CallsOf("untag")[1].args[2] = ExpectedRef

\* ------------------------------------------------------------------------
\* Properties of what cs.PushImage prints
\* ------------------------------------------------------------------------

\* The three lines of the confirmation block for the local image reference
\* of the request and the digest and the locator RegisterContainerImage
\* returned
ConfirmationOfResponse ==
    LET ret == ReturnsOf("register")[1]
    IN  << "Digest: " \o ret.args[1],
           "Image \"" \o in.Image \o "\" registered.",
           "Refer to this image as \"" \o ret.args[2] \o "\" in deployments." >>

\* C21: a run that has returned printed the confirmation block once, with
\* the digest and the locator of the registration response and the local
\* image reference of the request, and returns nil, when registration
\* succeeded; it printed nothing and returns an error otherwise. Nothing is
\* printed before push and register succeeded, and once the block is
\* printed neither it nor the progress lines rendered change.
C21_ConfirmationPrintedOnce ==
    /\ [](pc = "done" =>
            IF Succeeded("register")
            THEN stdout = ConfirmationOfResponse /\ err = nil
            ELSE stdout = << >> /\ err # nil)
    /\ [](stdout # << >> =>
            /\ Succeeded("push")
            /\ epc = "returned"
            /\ Succeeded("register")
            /\ stdout = ConfirmationOfResponse)
    /\ [][stdout # << >> => (stdout' = stdout /\ stderr' = stderr)]_vars

\* The registration response carries another digest than the one pushed,
\* and progress lines were rendered
C21_Witness ==
    /\ pc = "done"
    /\ in.Image = "nginx:latest"
    /\ digest = Digest1
    /\ Len(stderr) >= 1
    /\ stdout = << "Digest: " \o Digest2,
                   "Image \"nginx:latest\" registered.",
                   "Refer to this image as \":doge.www.12345\" in deployments." >>

\* ------------------------------------------------------------------------
\* Properties of parseInput
\* ------------------------------------------------------------------------

\* The characters of t from the i-th on are all decimal digits, and there
\* is one at least
DigitsFrom(t, i) ==
    /\ i <= Len(t)
    /\ \A j \in i..Len(t) : SubSeq(t, j, j) \in {"0", "1", "2", "3", "4", "5", "6",
                                                 "7", "8", "9"}

\* t is a number: decimal digits, after a sign or not
IsNumeric(t) ==
    \/ DigitsFrom(t, 1)
    \/ (Len(t) >= 1 /\ SubSeq(t, 1, 1) \in {"+", "-"} /\ DigitsFrom(t, 2))

\* t is a number below zero
IsNegative(t) ==
    /\ Len(t) >= 1
    /\ SubSeq(t, 1, 1) = "-"
    /\ DigitsFrom(t, 2)
    /\ \E j \in 2..Len(t) : SubSeq(t, j, j) # "0"

\* parseInput has returned
ParseInputReturned == pc # "parseInput"

\* C22: parseInput returns an Input only for an envelope whose inputVersion
\* is a number that is not below zero; an empty inputVersion, one that is
\* no number and one below zero give an error and no Input; the Input
\* returned has the inputVersion text of the envelope; and the decimal text
\* of a number of at most nine digits, as strconv.Itoa writes it, is
\* accepted.
C22_InputVersionChecked ==
    (ParseInputReturned /\ envelope.kind = "object") =>
        LET t == envelope.inputVersion
        IN  /\ parsed.err = nil => (IsNumeric(t) /\ ~IsNegative(t))
            /\ (t = "" \/ ~IsNumeric(t) \/ IsNegative(t)) =>
                  /\ parsed.err = errorsNew("invalid inputVersion: it must contain a non-negative number")
                  /\ parsed.in = NoPluginInput
                  /\ pc = "exit"
                  /\ fatal = "invalid plugin input: invalid inputVersion: it must contain a non-negative number"
            /\ parsed.err = nil => parsed.in.InputVersion = t
            /\ (DigitsFrom(t, 1) /\ Len(t) <= 9 /\ (Len(t) = 1 \/ SubSeq(t, 1, 1) # "0"))
                  => parsed.err = nil

\* A number below zero was rejected
C22_Witness ==
    /\ pc = "exit"
    /\ envelope.kind = "object"
    /\ envelope.inputVersion = "-55"
    /\ envelope.operation = "PushContainerImage"
    /\ parsed.err # nil
    /\ fatal = "invalid plugin input: invalid inputVersion: it must contain a non-negative number"

\* ------------------------------------------------------------------------
\* Properties of main
\* ------------------------------------------------------------------------

\* The first argument of the program is one of a and b
FirstArgIs(a, b) == Len(osArgs) > 1 /\ (osArgs[2] = a \/ osArgs[2] = b)

\* C23: a run of main calls pluginMain once, with '<arg0> <arg1>' and the
\* arguments after the first, and neither prints nor ends the process, when
\* the first argument is -plugin or --plugin; it prints the version and
\* calls nothing when the first argument is -version or --version; otherwise
\* it ends the process with its fatal message, calling and printing nothing.
C23_MainDispatch ==
    [][(pc = "main" /\ pc' # "main") =>
          IF FirstArgIs("-plugin", "--plugin")
          THEN /\ pluginCalls' = pluginCalls \o
                      << [progname |-> osArgs[1] \o " " \o osArgs[2],
                          args |-> [i \in 1..(Len(osArgs) - 2) |-> osArgs[i + 2]]] >>
               /\ stdout' = stdout
               /\ fatal' = ""
               /\ pc' = "mainReturned"
          ELSE IF FirstArgIs("-version", "--version")
          THEN /\ pluginCalls' = pluginCalls
               /\ stdout' = stdout \o <<"v1.0.7-fix95fix100">>
               /\ fatal' = ""
               /\ pc' = "mainReturned"
          ELSE /\ pluginCalls' = pluginCalls
               /\ stdout' = stdout
               /\ fatal' = osArgs[1] \o " can't be used directly, it is meant to be invoked by AWS CLI"
               /\ pc' = "exit"]_vars

\* The two calls of TestMainCallsPluginMain
C23_Witness ==
    /\ pc = "mainReturned"
    /\ pluginCalls = << [progname |-> "program -plugin", args |-> <<"--foo", "55">>],
                        [progname |-> "program --plugin", args |-> <<"--bar", "42">>] >>
    /\ stdout = << >>
    /\ fatal = ""

\* ------------------------------------------------------------------------
\* Properties of the check for updates
\* ------------------------------------------------------------------------

\* Versions in ascending order of precedence; the texts of one entry denote
\* the same version, which is written as name
VersionsAscending ==
    << [name |-> "v1.0.7-fix95fix100", texts |-> {"v1.0.7-fix95fix100"}],
       [name |-> "v1.0.7-fix95fix99", texts |-> {"v1.0.7-fix95fix99"}],
       [name |-> "v1.0.7", texts |-> {"v1.0.7"}],
       [name |-> "v1.4.0-beta", texts |-> {"1.4.0-beta"}],
       [name |-> "v1.4.0", texts |-> {"v1.4"}],
       [name |-> "v1.4.1", texts |-> {"1.4.1"}],
       [name |-> "v1.4.33", texts |-> {"1.4.33", "v1.4.33", "v1.4.33+build5"}],
       [name |-> "v1.6.11", texts |-> {"v1.6.11"}],
       [name |-> "v1.9.0", texts |-> {"v1.9.0"}],
       [name |-> "v1.10.0", texts |-> {"v1.10.0"}],
       [name |-> "v2.0.0", texts |-> {"v2"}],
       [name |-> "v2.7.3-1", texts |-> {"v2.7.3-1"}],
       [name |-> "v2.7.3-alpha", texts |-> {"v2.7.3-alpha"}],
       [name |-> "v2.7.3-beta", texts |-> {"v2.7.3-beta"}],
       [name |-> "v2.7.3-beta.2", texts |-> {"v2.7.3-beta.2"}],
       [name |-> "v2.7.3-beta.11", texts |-> {"v2.7.3-beta.11"}],
       [name |-> "v2.7.3-beta.x", texts |-> {"v2.7.3-beta.x"}],
       [name |-> "v2.7.3", texts |-> {"v2.7.3"}] >>

\* The text t is a version
IsVersion(t) == \E i \in 1..Len(VersionsAscending) : t \in VersionsAscending[i].texts

\* The place of the version t in the order
Precedence(t) == CHOOSE i \in 1..Len(VersionsAscending) : t \in VersionsAscending[i].texts

\* The value the service gave for lightsailctlVersion, if it gave one
LatestGiven ==
    { metadata.Metadata[i].value : i \in { j \in 1..Len(metadata.Metadata) :
                                   metadata.Metadata[j].name = "lightsailctlVersion" } }

\* The latest version was obtained
LatestObtained == metadata.err = nil /\ \E t \in LatestGiven : IsVersion(t)

\* C24: once CheckForUpdates has run, the warning has been printed, once,
\* exactly when the latest version was obtained and the version in use is
\* strictly lower than it in the order of semantic versions; when the latest
\* version was not obtained there is one line in the debug log and none
\* otherwise; and invokeOperation has gone on to the payload with no error
\* from the check.
C24_WarnsWhenOutdated ==
    pc # "checkForUpdates" =>
        /\ IF LatestObtained
           THEN /\ debugLogged = << >>
                /\ \A t \in LatestGiven :
                      logged = IF Precedence(inUse) < Precedence(t)
                               THEN << "WARNING: You are using lightsailctl "
                                       \o VersionsAscending[Precedence(inUse)].name
                                       \o ", but " \o VersionsAscending[Precedence(t)].name
                                       \o " is available.\nTo download, visit https://lightsail.aws.amazon.com/ls/docs/en_us/articles/amazon-lightsail-install-software" >>
                               ELSE << >>
           ELSE /\ logged = << >>
                /\ Len(debugLogged) = 1
                /\ Contains(debugLogged[1], "latest lightsailctl version")
        /\ stdout = << >>
        /\ pc \in {"parsePayload", "newDockerEngine", "start", "done"}
        /\ pc \in {"parsePayload", "newDockerEngine", "start"} => err = nil
        /\ err # nil => ~Contains(ErrorText(err), "lightsailctl version")

\* A pre-release in use and its release available: the warning is printed
\* and PushImage is called
C24_Witness ==
    /\ pc = "start"
    /\ inUse = "v2.7.3-beta"
    /\ LatestGiven = {"v2.7.3"}
    /\ Len(logged) = 1

\* ------------------------------------------------------------------------
\* Properties of the calls PushImage makes
\* ------------------------------------------------------------------------

\* The capabilities PushImage uses
Capabilities == {"login", "tag", "push", "register", "untag"}

\* C25: in a run of PushImage no capability is called a second time, whether
\* its first call failed or not.
C25_NoRetry ==
    \A op \in Capabilities :
        /\ Len(CallsOf(op)) <= 1
        /\ Len(ReturnsOf(op)) <= Len(CallsOf(op))

\* A finished run in which the push and the untag both failed
C25_Witness ==
    /\ pc = "done"
    /\ Failed("push")
    /\ Failed("untag")
    /\ \A op \in Capabilities \ {"register"} : Len(CallsOf(op)) = 1

\* ------------------------------------------------------------------------
\* Properties of the pipe between scanStatuses and its reader
\* ------------------------------------------------------------------------

\* How many forwarded messages the reader has not read yet
InFlight == Len(output) - Len(stdout)

\* C26: the goroutine of scanStatuses decodes a record of its input only
\* when the reader has read every message forwarded before, so that at most
\* one forwarded message is unread at any time, and that one is the message
\* in the pipe.
C26_OneMessageInFlight ==
    /\ [](InFlight \in {0, 1})
    /\ [](InFlight = 1 <=> pipe # NoMessage)
    /\ [](InFlight = 1 => pipe = output[Len(output)] /\ ppc = "write")
    /\ [][input' # input => InFlight = 0 /\ InFlight' \in {0, 1}]_vars

\* A second record is decoded after the first one was forwarded and read
C26_Witness ==
    /\ Len(input) = 2
    /\ Len(output) = 2
    /\ Len(stdout) = 1
    /\ pipe = output[2]

\* ------------------------------------------------------------------------
\* Properties of what DockerEngine.PushImage shows of the push response
\* ------------------------------------------------------------------------

\* The server address of the login and the tag that was generated
AddressAndTag == <<authConfig.ServerAddress, generated[Len(generated)]>>

\* The messages ms that are rendered: one with an aux payload goes to the
\* callback instead, and one with an error ends the rendering
RECURSIVE RenderedOf(_)
RenderedOf(ms) ==
    IF ms = << >> THEN << >>
    ELSE IF Head(ms).Aux # AuxAbsent THEN RenderedOf(Tail(ms))
    ELSE IF Head(ms).Error # nil THEN << >>
    ELSE << Head(ms) >> \o RenderedOf(Tail(ms))

\* C27 as stated: the substrings to skip are the server address and the tag,
\* no record whose status text contains one of them is rendered, and when
\* DockerEngine.PushImage has returned and the goroutine has ended, every
\* other record that was decoded has been rendered.
C27_EveryOtherRecordRendered ==
    ppc # "none" =>
        /\ skips = AddressAndTag
        /\ \A i \in 1..Len(stderr) : ~Suppressed(stderr[i].Status, AddressAndTag)
        /\ (epc = "returned" /\ ppc = "closed") => stderr = Kept(input, AddressAndTag)

\* C27: the substrings to skip are the server address and the tag; no record
\* whose status text contains one of them is rendered; what is rendered are
\* other records, in their order, that carry neither an aux payload nor an
\* error and come before the first other record with an error; and when
\* DockerEngine.PushImage has returned all of those have been rendered.
C27_SuppressedNeverRendered ==
    ppc # "none" =>
        /\ skips = AddressAndTag
        /\ \A i \in 1..Len(stderr) : ~Suppressed(stderr[i].Status, AddressAndTag)
        /\ IsPrefix(stderr, RenderedOf(Kept(input, AddressAndTag)))
        /\ epc = "returned" => stderr = RenderedOf(Kept(input, AddressAndTag))

\* A record with the tag in its status text was decoded and another record
\* was rendered
C27_Witness ==
    /\ epc = "returned"
    /\ Len(input) = 2
    /\ Suppressed(input[1].status, <<generated[1]>>)
    /\ ~Suppressed(input[1].status, <<authConfig.ServerAddress>>)
    /\ Len(stderr) = 1
    /\ stderr[1].Status = "Waiting"

\* ------------------------------------------------------------------------
\* Properties of the context of the calls
\* ------------------------------------------------------------------------

\* The calls made so far, in order
Calls == SelectSeq(trace, LAMBDA e : e.ev = "call")

\* C28: the first argument of every capability call PushImage has made, the
\* untag of the cleanup included, is the context PushImage was given, and so
\* is the context every deferred cleanup holds.
C28_ContextPassedOn ==
    /\ \A i \in 1..Len(Calls) :
          /\ Calls[i].op \in Capabilities
          /\ Calls[i].args[1] = ctx
    /\ \A i \in 1..Len(deferred) : deferred[i].ctx = ctx

\* A finished run that made all five calls
C28_Witness ==
    /\ pc = "done"
    /\ err = nil
    /\ { Calls[i].op : i \in 1..Len(Calls) } = Capabilities
    /\ \A i \in 1..Len(Calls) : Calls[i].args[1] = "ctxRequest"

\* C29 as stated: a cleanup that is due is attempted; when the context of
\* the run is cancelled at the time of the cleanup, UntagImage is called
\* under a context that is not cancelled; and UntagImage never fails with
\* the error of the cancelled context.
C29_CleanupOutlivesCancel ==
    /\ [](pc = "done" /\ Succeeded("tag") => Len(CallsOf("untag")) = 1)
    /\ [][(pc = "deferred" /\ pc' = "untag") =>
              trace'[Len(trace')].args[1] \notin cancelled]_vars
    /\ [](\A i \in 1..Len(trace) :
              IsReturnOf(trace[i], "untag") =>
                  ~Contains(ErrorText(trace[i].err), "context canceled"))

\* ------------------------------------------------------------------------
\* Properties of extractDigestFromAux
\* ------------------------------------------------------------------------

\* C30: when the callback is given an aux payload that does not decode, such
\* as the number 42, the digest of the aux path stays as it was and the
\* failure is logged; when it is given the object {"digest": d}, the digest
\* of the aux path becomes d; the digest of the status path stays as it was
\* in both cases.
C30_AuxDigestSet ==
    [][(epc = "display" /\ pipe # NoMessage /\ pipe' = NoMessage
            /\ pipe.Aux.t # "absent") =>
          /\ pipe.Aux.t = "number" =>
                /\ digestFromAux' = digestFromAux
                /\ Len(logged') = Len(logged) + 1
          /\ \A d \in {Digest1, Digest2} :
                pipe.Aux = [t |-> "object", digest |-> d] =>
                    /\ digestFromAux' = d
                    /\ logged' = logged
          /\ digestFromStatus' = digestFromStatus
          /\ stderr' = stderr]_vars

\* {"digest": d} and then 42: the digest of the aux path is d, and it is
\* returned
C30_Witness ==
    /\ epc = "returned"
    /\ Len(input) = 2
    /\ input[1].aux = [t |-> "object", digest |-> Digest2]
    /\ input[2].aux = [t |-> "number", digest |-> ""]
    /\ digestFromAux = Digest2
    /\ pushed = [digest |-> Digest2, err |-> nil]

\* ------------------------------------------------------------------------
\* Properties of the digest DockerEngine.PushImage returns
\* ------------------------------------------------------------------------

\* The i-th decoded record is not forwarded and its status text carries a
\* digest
SuppressedDigestAt(i) ==
    /\ Suppressed(input[i].status, AddressAndTag)
    /\ Len(digestStatusRE(input[i].status)) = 2

\* The digest in the status text of the i-th decoded record
DigestAt(i) == digestStatusRE(input[i].status)[2]

\* No record decoded after the i-th carries a digest in its status text
LastStatusDigestAt(i) ==
    \A j \in (i + 1)..Len(input) : Len(digestStatusRE(input[j].status)) # 2

C32_ProducerTerminates == (ppc # "none") ~> (ppc = "closed")

\* The goroutine exits, or waits in a write to the pipe that
\* DockerEngine.PushImage has stopped reading
ProducerEndsOrBlocks ==
    (ppc # "none") ~> (ppc = "closed" \/ (ppc = "write" /\ epc = "returned"))

\* C33: when the rendering ended without an error and the aux payload of a
\* forwarded record carried a digest, DockerEngine.PushImage has returned a
\* digest and no error, whatever aux payloads came after it.
C33_AuxDigestKept ==
    (DisplayReturnedNil /\ AuxDigests # << >>) =>
        /\ pushed.err = nil
        /\ pushed.digest # ""

\* The errors of the records that are not suppressed and carry an error and
\* no aux payload, in order
StreamErrors ==
    LET ms == SelectSeq(Kept(input, AddressAndTag),
                        LAMBDA m : m.Aux.t = "absent" /\ m.Error # nil)
    IN  [i \in 1..Len(ms) |-> ms[i].Error]

\* DockerEngine.PushImage has returned the error e, as it is or inside a
\* platform error, and no digest
ReturnedStreamError(e) ==
    /\ pushed.digest = ""
    /\ pushed.err # nil
    /\ pushed.err = e \/ (pushed.err.kind = "platformError" /\ pushed.err.cause = e)

\* C34 as stated: when some decoded record carries an error,
\* DockerEngine.PushImage has returned an error and no digest, and register
\* is never called.
C34_AnyErrorRecordFailsPush ==
    (epc = "returned" /\ \E i \in 1..Len(input) : input[i].errorDetail # nil) =>
        /\ pushed.digest = ""
        /\ pushed.err # nil
        /\ NeverCalled("register")

\* C34: when a record that is not suppressed carries an error and no aux
\* payload, DockerEngine.PushImage has returned the error of the first such
\* record and no digest, whatever digest the earlier records carried;
\* register is never called, nothing is printed, and PushImage returns that
\* error.
C34_StreamErrorFailsPush ==
    (epc = "returned" /\ imagePushErr = nil /\ StreamErrors # << >>) =>
        /\ ReturnedStreamError(StreamErrors[1])
        /\ NeverCalled("register")
        /\ stdout = << >>
        /\ pc = "done" => err = pushed.err

\* A digest in a status text, then a record with an error
C34_Witness ==
    /\ pc = "done"
    /\ Len(input) = 2
    /\ digestFromStatus = Digest1
    /\ input[2].errorDetail # nil
    /\ pushed = [digest |-> "", err |-> input[2].errorDetail]
    /\ err = input[2].errorDetail
    /\ NeverCalled("register")

\* C35: when DockerEngine.PushImage has returned, its digest is not empty
\* exactly when its error is nil; and every call of register carries a
\* digest that is not empty, the one DockerEngine.PushImage returned.
C35_DigestIffNoError ==
    /\ epc = "returned" => (pushed.digest # "" <=> pushed.err = nil)
    /\ \A i \in 1..Len(CallsOf("register")) :
          /\ CallsOf("register")[i].args[4] # ""
          /\ CallsOf("register")[i].args[4] = pushed.digest
          /\ pushed.err = nil

\* The digest of an aux payload was returned and registered
C35_Witness ==
    /\ pc = "done"
    /\ err = nil
    /\ digestFromStatus = ""
    /\ pushed = [digest |-> Digest2, err |-> nil]
    /\ Len(CallsOf("register")) = 1
    /\ CallsOf("register")[1].args[4] = Digest2

\* ------------------------------------------------------------------------
\* generateUniqueTag as a function of what it reads
\* ------------------------------------------------------------------------

\* The random sources a call of generateUniqueTag can read 8 bytes from
FullReaders == {r \in RngReaders : Len(r) >= RandomLen}

\* C36: two calls of generateUniqueTag returned the same tag exactly when
\* they read the same nanosecond timestamp and the same 8 bytes, and the tag
\* a call returned is the tag of another clock value and random source
\* exactly when these give the same timestamp and the same 8 bytes: nothing
\* keeps a second call from returning a tag that was returned before.
C36_TagInjective ==
    \A i \in 1..Len(generated) :
        /\ \A j \in 1..Len(generated) :
              (generated[i] = generated[j]) <=> (observed[i] = observed[j])
        /\ \A t \in Times, r \in FullReaders :
              (generated[i] = generateUniqueTag(t, r))
                  <=> (observed[i] = Observation(t, r))

\* Two calls read the same 8 bytes within the same second at different
\* nanoseconds, and returned different tags
C36_Witness ==
    /\ pc = "tagTest"
    /\ Len(generated) = 2
    /\ observed[1].bytes = observed[2].bytes
    /\ observed[1].now.sec = observed[2].now.sec
    /\ observed[1].now.nsec # observed[2].now.nsec
    /\ generated[1] # generated[2]

====
